---- MODULE Spec2Model ----
(***************************************************************************)
(* A model of mcp-codemode: the isolated-vm execution engine               *)
(* (IsolatedSandbox), the worker-thread engine (CodeSandbox), the          *)
(* validator's usage check and the MCPCodeMode facade that gates           *)
(* execution behind validation.                                            *)
(***************************************************************************)
EXTENDS Integers, Sequences, FiniteSets, TLC

VARIABLES
  variant,      \* which IsolatedSandbox source is loaded: "fixed" | "wrapped"
  isolate,      \* this.isolate: 0 is null, else the id of an ivm.Isolate
  context,      \* this.context: 0 is null, else the id of its context
  alive,        \* isolated-vm: the isolates that have not been disposed
  created,      \* isolated-vm: number of isolates ever created
  logs,         \* this.logs: index into arrays (0: undefined)
  arrays,       \* the host heap of log arrays; a result aliases one of them
  proxy,        \* the handler captured by _mcpCallAsync in the live context
  hpc,          \* host side of execute: "idle" | "eval"
  running,      \* what the isolate is running: "none" | "main" | "cont"
  cur,          \* the task the isolate is running
  tasks,        \* suspended tasks of the live context
  calls,        \* host handler invocations, in order of invocation
  results,      \* results returned by IsolatedSandbox.execute, in order
  made,         \* per execution: the console calls its code has made
  execs,        \* per execution: the code and handler it was given, its isolate
  disposeRun,   \* number of dispose calls made in a row
  raised,       \* an IsolatedSandbox.dispose call has raised
  facade,         \* which MCPCodeMode source is loaded: "enhanced" | "basic"
  validateTypes,  \* MCPCodeMode: options.validateTypes !== false
  connected,      \* MCPCodeMode.connected
  availableTools, \* MCPCodeMode.availableTools
  client,         \* MCPBridge.client: 0 is null
  tools,          \* MCPBridge.tools
  sent,           \* requests sent to the tool source, in order
  subs,           \* executeCode calls, in order, with what became of each
  connects,       \* number of connect calls made
  typeDefinitions, \* MCPBridge.typeDefinitions
  fetched,        \* the descriptors listTools answered for the connection in place
  handed,         \* what getTools and getTypeDefinitions returned, as the caller holds it
  bcalls,         \* callTool calls made on the bridge directly, with what became of each
  pcalls,         \* calls of the exported functions and helpers, with what each returned
  wphase,         \* CodeSandbox worker: "none" | "run" | "done" | "dead"
  wprog,          \* the code inside the worker
  wpc,            \* the worker's position in it
  wlogs,          \* the worker's logs array
  listeners,      \* the worker's message listeners, one per pending mcp call
  settled,        \* per mcp call of the worker code: what its promise settled with
  toHost,         \* messages and events of the worker, not yet handled by the host
  toWorker,       \* messages posted by the host, not yet handled by the worker
  hcalls,         \* mcpHandler invocations of the host's message handler
  completed,      \* the completed flag of execute
  timerArmed,     \* the timeout timer is pending
  wresult,        \* what the promise returned by execute resolved with
  runs            \* number of CodeSandbox.execute calls made

isoVars == <<variant, isolate, context, alive, created, logs, arrays, proxy, hpc,
             running, cur, tasks, calls, results, made, execs, disposeRun, raised>>

bVars == <<typeDefinitions, fetched, handed, bcalls>>

facVars == <<facade, validateTypes, connected, availableTools, client, tools, sent, subs,
             connects, bVars, pcalls>>

wVars == <<wphase, wprog, wpc, wlogs, listeners, settled, toHost, toWorker, hcalls,
           completed, timerArmed, wresult, runs>>

vars == <<isoVars, facVars, wVars>>

----------------------------------------------------------------------------
(* Bounds of the model *)

MaxExec == 2          \* execute calls per behaviour
MaxDisposeRun == 1    \* dispose calls in a row
MaxSubs == 2          \* executeCode calls per behaviour
MaxConnects == 1      \* connect calls per behaviour
MaxRuns == 1          \* CodeSandbox.execute calls per behaviour

(* Program constants *)

DefaultMemoryLimit == 128
DefaultTimeout == 5000

NoHandler == "none"
Undefined == 0

TimeoutSig == "Script execution timed out"
DisposedSig == "Isolate was disposed"

----------------------------------------------------------------------------
(* Values and console formatting *)

\* A value: its type tag, its text (String(v), or JSON.stringify(v) of an
\* object) and its indented text JSON.stringify(v, null, 2).
Str(s) == [t |-> "str", v |-> s, p |-> s]
Num(s) == [t |-> "num", v |-> s, p |-> s]
Null == [t |-> "null", v |-> "", p |-> ""]
Undef == [t |-> "undef", v |-> "", p |-> ""]
Obj(json, pretty) == [t |-> "obj", v |-> json, p |-> pretty]
Cyclic == [t |-> "obj", v |-> "<cyclic>", p |-> "<cyclic>"]

RECURSIVE JoinSpace(_)
JoinSpace(parts) ==
  IF Len(parts) = 0 THEN ""
  ELSE IF Len(parts) = 1 THEN parts[1]
  ELSE parts[1] \o " " \o JoinSpace(Tail(parts))

FormatArg(arg) ==
  IF arg.t = "null" THEN "null"
  ELSE IF arg.t = "undef" THEN "undefined"
  ELSE IF arg.t = "obj" THEN (IF arg.v = "<cyclic>" THEN "[Object]" ELSE arg.v)
  ELSE arg.v

_logSync(args) == JoinSpace([i \in 1..Len(args) |-> FormatArg(args[i])])

ConsoleArgs(m, args) ==
  IF m = "error" THEN <<Str("ERROR:")>> \o args
  ELSE IF m = "warn" THEN <<Str("WARN:")>> \o args
  ELSE args

----------------------------------------------------------------------------
(* Submitted code: a sequence of statements *)

Log(m, args) == [op |-> "log", m |-> m, args |-> args]
CallAwait(tool, arg) == [op |-> "call", mode |-> "await", tool |-> tool, arg |-> arg]
\* mcp.X(arg).then(() => body): the code goes on at once, body runs later
CallThenDo(tool, arg, body) ==
  [op |-> "call", mode |-> "then", tool |-> tool, arg |-> arg, body |-> body]
CallThen(tool, arg, args) == CallThenDo(tool, arg, <<Log("log", args)>>)
Sleep == [op |-> "sleep"]
Hang == [op |-> "hang"]
Spin == [op |-> "spin"]
Alloc == [op |-> "alloc"]
Throw(msg) == [op |-> "throw", msg |-> msg]
TypeDecl == [op |-> "typedecl"]
Bad == [op |-> "bad"]

ToolT == <<"t">>
ToolAB == <<"a", "_", "b">>
ToolX == <<"x">>
ToolDollarX == <<"$", "x">>
NameT == <<"t">>
NameADashB == <<"a", "-", "b">>
NameAB == <<"a", "_", "b">>

P_console == <<Log("error", <<Str("5 + 3 ="), Num("8"), Null>>), Log("warn", <<Undef, Cyclic>>),
               Log("log", <<Obj("{\"a\":1}", "{\n  \"a\": 1\n}")>>)>>
P_memory == <<Log("log", <<Str("Attempting")>>), Alloc, Log("log", <<Str("no")>>)>>
P_timeout == <<Log("log", <<Str("Starting")>>), Spin, Log("log", <<Str("no")>>)>>
P_mcp == <<Log("log", <<Str("Calling")>>), CallAwait(ToolT, 1), Log("log", <<Str("MCP Result")>>)>>
P_async == <<Log("log", <<Str("Starting async")>>), Sleep, Log("log", <<Str("completed")>>)>>
P_late == <<CallThen(ToolT, 1, <<Str("late")>>), Spin>>
P_hang == <<Log("log", <<Str("before")>>), Hang>>
P_throw == <<Log("log", <<Str("x")>>), Throw(<<"boom">>)>>
P_throwBoth == <<Throw(<<TimeoutSig, " after ", DisposedSig>>)>>
P_spoof == <<CallThen(ToolT, 1, <<Str("late")>>), Throw(<<DisposedSig>>)>>
P_leak == <<CallThenDo(ToolT, 1, <<Alloc>>)>>
P_latespin == <<CallThenDo(ToolT, 1, <<Spin>>)>>

Handlers == {"h1"}

\* The calls of execute(code, mcpHandler): code that calls no tool without a
\* handler, code that calls one with a handler, and once without.
IsoCalls ==
  {[prog |-> prog, h |-> NoHandler] :
     prog \in {P_console, P_memory, P_timeout, P_async, P_hang, P_throw, P_throwBoth, P_mcp}}
    \cup {[prog |-> prog, h |-> h] :
            prog \in {P_mcp, P_late, P_leak, P_latespin, P_spoof}, h \in Handlers}

Includes(msg, sig) == \E i \in 1..Len(msg) : msg[i] = sig

IsSuspending(op) ==
  \/ op.op \in {"sleep", "hang"}
  \/ op.op = "call" /\ op.mode = "await"

\* What V8 rejects when it compiles the text handed to context.eval: type
\* syntax that was not compiled away, and await outside an async function.
HasSyntaxError(v, prog) ==
  \/ \E i \in 1..Len(prog) : prog[i].op \in {"typedecl", "bad"}
  \/ v = "fixed" /\ \E i \in 1..Len(prog) : IsSuspending(prog[i])

----------------------------------------------------------------------------
(* schema-to-types.js and MCPBridge.callTool *)

WordChars ==
  {"a", "b", "c", "d", "e", "f", "g", "h", "i", "j", "k", "l", "m", "n", "o", "p", "q",
   "r", "s", "t", "u", "v", "w", "x", "y", "z", "A", "B", "C", "D", "E", "F", "G", "H",
   "I", "J", "K", "L", "M", "N", "O", "P", "Q", "R", "S", "T", "U", "V", "W", "X", "Y",
   "Z", "0", "1", "2", "3", "4", "5", "6", "7", "8", "9", "_"}

sanitizeName_FirstOnly(name) ==
  LET bad == {i \in 1..Len(name) : name[i] \notin WordChars}
  IN [i \in 1..Len(name) |-> IF i \in bad /\ \A j \in bad : i <= j THEN "_" ELSE name[i]]

\* name.replace(/[^a-zA-Z0-9_]/g, '_'), a name being its sequence of characters
sanitizeName(name) ==
  [i \in 1..Len(name) |-> IF name[i] \in WordChars THEN name[i] ELSE "_"]

\* str.split(/[-_]/).map(part => part.charAt(0).toUpperCase() +
\* part.slice(1).toLowerCase()).join('')
LowerCase == <<"a", "b", "c", "d", "e", "f", "g", "h", "i", "j", "k", "l", "m", "n", "o", "p",
               "q", "r", "s", "t", "u", "v", "w", "x", "y", "z">>
UpperCase == <<"A", "B", "C", "D", "E", "F", "G", "H", "I", "J", "K", "L", "M", "N", "O", "P",
               "Q", "R", "S", "T", "U", "V", "W", "X", "Y", "Z">>
toUpperCase(c) ==
  IF \E i \in 1..Len(LowerCase) : LowerCase[i] = c
  THEN UpperCase[CHOOSE i \in 1..Len(LowerCase) : LowerCase[i] = c]
  ELSE c
toLowerCase(c) ==
  IF \E i \in 1..Len(UpperCase) : UpperCase[i] = c
  THEN LowerCase[CHOOSE i \in 1..Len(UpperCase) : UpperCase[i] = c]
  ELSE c

RECURSIVE PascalFrom(_, _, _)
PascalFrom(str, i, first) ==
  IF i > Len(str) THEN <<>>
  ELSE IF str[i] \in {"-", "_"} THEN PascalFrom(str, i + 1, TRUE)
  ELSE <<IF first THEN toUpperCase(str[i]) ELSE toLowerCase(str[i])>>
         \o PascalFrom(str, i + 1, FALSE)

toPascalCase(str) == PascalFrom(str, 1, TRUE)

\* A schema node is a record holding the keys the JSON object holds; a text
\* is the sequence of its pieces.
Has(node, key) == key \in DOMAIN node

\* A node that is null or undefined
NoSchema == [missing |-> TRUE]

TypeText(text) == [raised |-> FALSE, text |-> text]
\* TypeError: Cannot read properties of null
TypeErrorRaised == [raised |-> TRUE, text |-> <<>>]

\* ' '.repeat(indent)
Spaces(indent) ==
  IF indent = 0 THEN <<>> ELSE <<(<<"  ", "    ", "      ", "        ">>)[indent \div 2]>>

\* schema.enum.map(v => `"${v}"`).join(' | ')
RECURSIVE EnumUnion(_, _)
EnumUnion(enum, i) ==
  IF i > Len(enum) THEN <<>>
  ELSE (IF i > 1 THEN <<" | ">> ELSE <<>>) \o <<"\"", enum[i], "\"">> \o EnumUnion(enum, i + 1)

\* required = schema.required?.includes(key) ?? false
IsRequired(schema, key) ==
  /\ Has(schema, "required")
  /\ \E i \in 1..Len(schema.required) : schema.required[i] = key

OptionalMark_RequiredByDefault(schema, key) ==
  IF ~Has(schema, "required") \/ IsRequired(schema, key) THEN <<>> ELSE <<"?">>

\* optionalMark = required ? '' : '?'
OptionalMark(schema, key) == IF IsRequired(schema, key) THEN <<>> ELSE <<"?">>

EnumText(enum) == EnumUnion(enum, 1)

RECURSIVE jsonSchemaToTypeScript(_, _)
RECURSIVE UnionOf(_, _, _)
RECURSIVE PropsOf(_, _, _)

\* list.map(s => jsonSchemaToTypeScript(s, indent)).join(' | ')
UnionOf(list, indent, i) ==
  IF i > Len(list) THEN TypeText(<<>>)
  ELSE LET head == jsonSchemaToTypeScript(list[i], indent)
           rest == UnionOf(list, indent, i + 1)
       IN IF head.raised \/ rest.raised THEN TypeErrorRaised
          ELSE TypeText((IF i > 1 THEN <<" | ">> ELSE <<>>) \o head.text \o rest.text)

\* Object.entries(schema.properties).map(([key, propSchema]) => ...).join('\n').
\* propSchema.description is read before propSchema is translated: a null
\* or undefined propSchema raises a TypeError there.
PropsOf(schema, indent, i) ==
  IF i > Len(schema.properties) THEN TypeText(<<>>)
  ELSE LET key == schema.properties[i].key
           propSchema == schema.properties[i].schema
       IN IF propSchema = NoSchema THEN TypeErrorRaised
          ELSE LET comment == IF Has(propSchema, "description")
                              THEN Spaces(indent + 2) \o <<"/** ", propSchema.description, " */\n">>
                              ELSE <<>>
                   propType == jsonSchemaToTypeScript(propSchema, indent + 2)
                   rest == PropsOf(schema, indent, i + 1)
               IN IF propType.raised \/ rest.raised THEN TypeErrorRaised
                  ELSE TypeText((IF i > 1 THEN <<"\n">> ELSE <<>>)
                                  \o comment \o Spaces(indent + 2) \o <<key>>
                                  \o OptionalMark(schema, key) \o <<": ">> \o propType.text
                                  \o <<";">> \o rest.text)

jsonSchemaToTypeScript(schema, indent) ==
  IF schema = NoSchema THEN TypeText(<<"unknown">>)
  ELSE IF Has(schema, "anyOf") THEN UnionOf(schema.anyOf, indent, 1)
  ELSE IF Has(schema, "oneOf") THEN UnionOf(schema.oneOf, indent, 1)
  ELSE IF Has(schema, "allOf")
  THEN jsonSchemaToTypeScript(IF Len(schema.allOf) > 0 THEN schema.allOf[1] ELSE NoSchema,
                              indent)
  ELSE IF ~Has(schema, "type") THEN TypeText(<<"unknown">>)
  ELSE IF schema.type = "string"
  THEN IF Has(schema, "enum") THEN TypeText(EnumText(schema.enum)) ELSE TypeText(<<"string">>)
  ELSE IF schema.type \in {"number", "integer"} THEN TypeText(<<"number">>)
  ELSE IF schema.type = "boolean" THEN TypeText(<<"boolean">>)
  ELSE IF schema.type = "null" THEN TypeText(<<"null">>)
  ELSE IF schema.type = "array"
  THEN LET itemType == IF Has(schema, "items") /\ schema.items # NoSchema
                       THEN jsonSchemaToTypeScript(schema.items, indent)
                       ELSE TypeText(<<"unknown">>)
       IN IF itemType.raised THEN TypeErrorRaised ELSE TypeText(itemType.text \o <<"[]">>)
  ELSE IF schema.type = "object"
  THEN IF ~Has(schema, "properties")
       THEN IF Has(schema, "additionalProperties") /\ schema.additionalProperties = [is |-> FALSE]
            THEN TypeText(<<"{}">>)
            ELSE TypeText(<<"Record<string, unknown>">>)
       ELSE LET props == PropsOf(schema, indent, 1)
                withExtra == Has(schema, "additionalProperties")
                               /\ schema.additionalProperties # [is |-> FALSE]
                extra == IF ~withExtra THEN TypeText(<<>>)
                         ELSE IF schema.additionalProperties = [is |-> TRUE]
                         THEN TypeText(<<"unknown">>)
                         ELSE jsonSchemaToTypeScript(schema.additionalProperties, indent + 2)
                additionalProps == IF withExtra
                                   THEN <<"\n">> \o Spaces(indent + 2) \o <<"[key: string]: ">>
                                          \o extra.text \o <<";">>
                                   ELSE <<>>
            IN IF props.raised \/ extra.raised THEN TypeErrorRaised
               ELSE TypeText(<<"{\n">> \o props.text \o additionalProps \o <<"\n">>
                               \o Spaces(indent) \o <<"}">>)
  ELSE TypeText(<<"unknown">>)

\* tool.inputSchema || { type: 'object', properties: {} }
InputSchemaOf(tool) ==
  IF Has(tool, "inputSchema") /\ tool.inputSchema # NoSchema
  THEN tool.inputSchema
  ELSE [type |-> "object", properties |-> <<>>]

generateTypeScriptDefinitions_KeepsArrays(ts) ==
  (IF pcalls # <<>> /\ pcalls[Len(pcalls)].fn = "generate" /\ ~pcalls[Len(pcalls)].out.raised
   THEN pcalls[Len(pcalls)].out.text ELSE <<>>)
   \o [i \in 1..Len(ts) |->
        [input |-> toPascalCase(ts[i].name) \o <<"Input">>,
         inputType |-> jsonSchemaToTypeScript(InputSchemaOf(ts[i]), 0).text,
         output |-> toPascalCase(ts[i].name) \o <<"Output">>,
         doc |-> IF Has(ts[i], "description") THEN ts[i].description ELSE "",
         method |-> sanitizeName(ts[i].name)]]

\* generateTypeScriptDefinitions where it returns: per tool, in order, the
\* input interface with its translated schema, the output interface, and
\* the documented method it declares on mcp, built in arrays of the call.
generateTypeScriptDefinitions(ts) ==
  [i \in 1..Len(ts) |->
     [input |-> toPascalCase(ts[i].name) \o <<"Input">>,
      inputType |-> jsonSchemaToTypeScript(InputSchemaOf(ts[i]), 0).text,
      output |-> toPascalCase(ts[i].name) \o <<"Output">>,
      doc |-> IF Has(ts[i], "description") THEN ts[i].description ELSE "",
      method |-> sanitizeName(ts[i].name)]]

\* jsonSchemaToTypeScript(inputSchema) raises inside the generator's loop
GeneratorRaises(ts) ==
  \E i \in 1..Len(ts) : jsonSchemaToTypeScript(InputSchemaOf(ts[i]), 0).raised

NoName == <<>>

\* this.tools.find(t => sanitizeName(t.name) === toolName || t.name === toolName)
FindTool(ts, toolName) ==
  LET hits == {i \in 1..Len(ts) : sanitizeName(ts[i].name) = toolName \/ ts[i].name = toolName}
  IN IF hits = {} THEN 0 ELSE CHOOSE i \in hits : \A j \in hits : i <= j

\* MCPBridge.callTool up to its request: the name the request goes out with
\* (NoName when none is sent) and whether the call is bound to reject.
callTool_DispatchesUnknown(cl, ts, toolName) ==
  IF cl = 0
  THEN [sentAs |-> NoName, doomed |-> TRUE, error |-> <<"Not connected to MCP server">>]
  ELSE IF FindTool(ts, toolName) = 0
  THEN [sentAs |-> toolName, doomed |-> FALSE, error |-> <<>>]
  ELSE [sentAs |-> ts[FindTool(ts, toolName)].name, doomed |-> FALSE, error |-> <<>>]

callTool(cl, ts, toolName) ==
  IF cl = 0
  THEN [sentAs |-> NoName, doomed |-> TRUE, error |-> <<"Not connected to MCP server">>]
  ELSE IF FindTool(ts, toolName) = 0
  THEN [sentAs |-> NoName, doomed |-> TRUE, error |-> <<"Unknown MCP tool: ">> \o toolName]
  ELSE [sentAs |-> ts[FindTool(ts, toolName)].name, doomed |-> FALSE, error |-> <<>>]

\* The handler given to execute: a caller's own function, or the facade's
\* (methodName, args) => this.bridge.callTool(methodName, args).
Invoke(h, toolName) ==
  IF h = "bridge" THEN callTool(client, tools, toolName)
  ELSE [sentAs |-> NoName, doomed |-> FALSE, error |-> <<>>]

----------------------------------------------------------------------------
(* IsolatedSandbox *)

NoTask == [exec |-> 0, prog |-> <<>>, pc |-> 0, wk |-> "none", wc |-> 0]
Task(e, prog, pc, wk, wc) == [exec |-> e, prog |-> prog, pc |-> pc, wk |-> wk, wc |-> wc]

NoError == [kind |-> "none", limit |-> 0, msg |-> <<>>]
TimeoutError == [kind |-> "timeout", limit |-> DefaultTimeout, msg |-> <<>>]
MemoryError == [kind |-> "memory", limit |-> DefaultMemoryLimit, msg |-> <<>>]
Verbatim(msg) == [kind |-> "message", limit |-> 0, msg |-> msg]

Classify_NoMemoryBranch(msg) ==
  IF Includes(msg, TimeoutSig) THEN TimeoutError ELSE Verbatim(msg)

Classify_MemoryFirst(msg) ==
  IF Includes(msg, DisposedSig) THEN MemoryError
  ELSE IF Includes(msg, TimeoutSig) THEN TimeoutError
  ELSE Verbatim(msg)

\* The catch block of execute: the failure classes, tested in order.
Classify(msg) ==
  IF Includes(msg, TimeoutSig) THEN TimeoutError
  ELSE IF Includes(msg, DisposedSig) THEN MemoryError
  ELSE Verbatim(msg)

\* The output field of a failure result: this.logs in the fixed source,
\* this.output (never assigned) in the other.
FailureOutput(v, l) == IF v = "fixed" THEN l ELSE Undefined

LinesOf(a) == IF a = Undefined THEN <<>> ELSE arrays[a]

\* A result of execute. success, error and output are the code's fields; snap
\* (the lines of output at the return), made (the console calls the code had
\* made by then) and done (the code was neither suspended nor running at the
\* return) record the moment of the return; raw is the message of the error
\* the catch block was entered with.
MkResult(e, ok, err, out, done) ==
  [exec |-> e, success |-> ok, error |-> err, output |-> out,
   snap |-> LinesOf(out), made |-> made[e], done |-> done, raw |-> <<>>]

Catch_DropsOnAnyFailure(e, msg) ==
  /\ results' = Append(results, [MkResult(e, FALSE, Classify(msg), FailureOutput(variant, logs), TRUE)
                                   EXCEPT !.raw = msg])
  /\ hpc' = "idle"
  /\ isolate' = 0
  /\ context' = 0

\* The catch block of execute, entered with the message of the error that
\* rejected context.eval: the result, and the references after it.
Catch(e, msg) ==
  /\ results' = Append(results, [MkResult(e, FALSE, Classify(msg), FailureOutput(variant, logs), TRUE)
                                   EXCEPT !.raw = msg])
  /\ hpc' = "idle"
  /\ isolate' = IF Classify(msg).kind = "memory" THEN 0 ELSE isolate
  /\ context' = IF Classify(msg).kind = "memory" THEN 0 ELSE context

\* IsolatedSandbox after its constructor; isolated-vm with no isolate
SandboxConstructed ==
  /\ isolate = 0
  /\ context = 0
  /\ alive = {}
  /\ created = 0
  /\ logs = Undefined
  /\ arrays = <<>>
  /\ proxy = NoHandler
  /\ hpc = "idle"
  /\ running = "none"
  /\ cur = NoTask
  /\ tasks = {}
  /\ calls = <<>>
  /\ results = <<>>
  /\ made = <<>>
  /\ execs = <<>>
  /\ disposeRun = 0
  /\ raised = FALSE

\* MCPCodeMode and MCPBridge after their constructors
FacadeConstructed ==
  /\ connected = FALSE
  /\ availableTools = <<>>
  /\ client = 0
  /\ tools = <<>>
  /\ sent = <<>>
  /\ subs = <<>>
  /\ connects = 0
  /\ typeDefinitions = <<>>
  /\ fetched = <<>>
  /\ handed = <<>>
  /\ bcalls = <<>>
  /\ pcalls = <<>>

\* CodeSandbox before any execute call
NoWorker ==
  /\ wphase = "none"
  /\ wprog = <<>>
  /\ wpc = 0
  /\ wlogs = <<>>
  /\ listeners = {}
  /\ settled = <<>>
  /\ toHost = <<>>
  /\ toWorker = <<>>
  /\ hcalls = <<>>
  /\ completed = FALSE
  /\ timerArmed = FALSE
  /\ wresult = <<>>
  /\ runs = 0

InitIso ==
  /\ variant \in {"fixed", "wrapped"}
  /\ facade = "enhanced"
  /\ validateTypes = TRUE
  /\ SandboxConstructed
  /\ FacadeConstructed
  /\ NoWorker

ExecuteStart_AlwaysInitializes(prog, h) ==
  /\ hpc = "idle"
  /\ Len(execs) < MaxExec
  /\ LET needInit == TRUE
         iso == IF needInit THEN created + 1 ELSE isolate
         e == Len(execs) + 1
     IN /\ isolate' = iso
        /\ context' = iso
        /\ created' = IF needInit THEN created + 1 ELSE created
        /\ alive' = IF needInit THEN alive \cup {iso} ELSE alive
        /\ arrays' = Append(arrays, <<>>)
        /\ logs' = Len(arrays) + 1
        /\ proxy' = IF h # NoHandler THEN h ELSE IF needInit THEN NoHandler ELSE proxy
        /\ tasks' = (IF needInit THEN {} ELSE tasks) \cup {Task(e, prog, 1, "main", 0)}
        /\ execs' = Append(execs, [prog |-> prog, h |-> h, iso |-> iso, prior |-> disposeRun])
        /\ made' = Append(made, <<>>)
        /\ hpc' = "eval"
        /\ disposeRun' = 0
        /\ UNCHANGED <<variant, running, cur, calls, results, raised>>

\* execute(code, mcpHandler) up to the call of context.eval: initialize when a
\* reference is missing, a new this.logs array, setupMCPProxy when a handler
\* is given.
ExecuteStart(prog, h) ==
  /\ hpc = "idle"
  /\ Len(execs) < MaxExec
  /\ LET needInit == isolate = 0 \/ context = 0
         iso == IF needInit THEN created + 1 ELSE isolate
         e == Len(execs) + 1
     IN /\ isolate' = iso
        /\ context' = iso
        /\ created' = IF needInit THEN created + 1 ELSE created
        /\ alive' = IF needInit THEN alive \cup {iso} ELSE alive
        /\ arrays' = Append(arrays, <<>>)
        /\ logs' = Len(arrays) + 1
        /\ proxy' = IF h # NoHandler THEN h ELSE IF needInit THEN NoHandler ELSE proxy
        /\ tasks' = (IF needInit THEN {} ELSE tasks) \cup {Task(e, prog, 1, "main", 0)}
        /\ execs' = Append(execs, [prog |-> prog, h |-> h, iso |-> iso, prior |-> disposeRun])
        /\ made' = Append(made, <<>>)
        /\ hpc' = "eval"
        /\ disposeRun' = 0
        /\ UNCHANGED <<variant, running, cur, calls, results, raised>>

Return(r) ==
  /\ results' = Append(results, r)
  /\ hpc' = "idle"

Finish(isMain, r) ==
  /\ running' = "none"
  /\ cur' = NoTask
  /\ IF isMain THEN Return(r) ELSE UNCHANGED <<results, hpc>>

\* What isolated-vm raises when an isolate that is already disposed is used:
\* its message may or may not carry the disposal signature.
DeadIsolateMessages == {<<"Isolate is disposed">>, <<DisposedSig>>}

\* context.eval starts running the code once the isolate is free; on an
\* isolate that is already disposed setupMCPProxy or eval raises; text that
\* does not compile is rejected before any statement runs.
EvalBegin ==
  /\ running = "none"
  /\ \E t \in tasks :
       /\ t.wk = "main"
       /\ tasks' = tasks \ {t}
       /\ IF isolate \notin alive
          THEN /\ \E msg \in DeadIsolateMessages : Catch(t.exec, msg)
               /\ UNCHANGED <<running, cur>>
          ELSE IF HasSyntaxError(variant, t.prog)
          THEN /\ Catch(t.exec, <<"SyntaxError">>)
               /\ UNCHANGED <<running, cur>>
          ELSE /\ running' = "main"
               /\ cur' = t
               /\ UNCHANGED <<results, hpc, isolate, context>>
  /\ UNCHANGED <<variant, alive, created, logs, arrays, proxy,
                 calls, made, execs, disposeRun, raised>>
  /\ UNCHANGED <<facVars, wVars>>

\* A task whose awaited promise has settled resumes once the isolate is free.
ContBegin ==
  /\ running = "none"
  /\ \E t \in tasks :
       /\ t.wk = "ready"
       /\ tasks' = tasks \ {t}
       /\ running' = "cont"
       /\ cur' = t
  /\ UNCHANGED <<variant, isolate, context, alive, created, logs, arrays, proxy, hpc,
                 calls, results, made, execs, disposeRun, raised>>
  /\ UNCHANGED <<facVars, wVars>>

AtOp(name) ==
  /\ running # "none"
  /\ cur.pc <= Len(cur.prog)
  /\ cur.prog[cur.pc].op = name

\* console.log / error / warn -> _logSync -> this.logs.push(message)
StepLog ==
  /\ AtOp("log")
  /\ LET op == cur.prog[cur.pc]
     IN /\ arrays' = [arrays EXCEPT ![logs] = Append(@, _logSync(ConsoleArgs(op.m, op.args)))]
        /\ made' = [made EXCEPT ![cur.exec] = Append(@, [m |-> op.m, args |-> op.args])]
  /\ cur' = [cur EXCEPT !.pc = @ + 1]
  /\ UNCHANGED <<variant, isolate, context, alive, created, logs, proxy, hpc, running,
                 tasks, calls, results, execs, disposeRun, raised>>
  /\ UNCHANGED <<facVars, wVars>>

\* The running code raises an uncaught error. At the top level of the fixed
\* source's script the error rejects context.eval and reaches the catch block;
\* inside the other source's async wrapper it only rejects the wrapper's
\* promise, which eval does not wait for; in a resumed continuation it is an
\* unhandled rejection inside the isolate.
Raise(msg) ==
  /\ running' = "none"
  /\ cur' = NoTask
  /\ IF running = "main"
     THEN IF variant = "fixed"
          THEN Catch(cur.exec, msg)
          ELSE /\ Return(MkResult(cur.exec, TRUE, NoError, logs, TRUE))
               /\ UNCHANGED <<isolate, context>>
     ELSE UNCHANGED <<results, hpc, isolate, context>>

\* mcp.X(args): the proxy calls _mcpCallAsync, which invokes the host handler.
StepCall ==
  /\ AtOp("call")
  /\ LET op == cur.prog[cur.pc]
         id == Len(calls) + 1
     IN IF proxy = NoHandler
        THEN /\ Raise(<<"mcp is not defined">>)
             /\ UNCHANGED <<calls, tasks, sent>>
        ELSE /\ calls' = Append(calls, [tool |-> op.tool, arg |-> op.arg, exec |-> cur.exec,
                                        h |-> proxy, status |-> "pending", late |-> FALSE,
                                        doomed |-> Invoke(proxy, op.tool).doomed])
             /\ sent' = IF Invoke(proxy, op.tool).sentAs # NoName
                        THEN Append(sent, [name |-> Invoke(proxy, op.tool).sentAs,
                                           arg |-> op.arg, call |-> id])
                        ELSE sent
             /\ IF op.mode = "await"
                THEN /\ tasks' = tasks \cup {Task(cur.exec, cur.prog, cur.pc + 1, "call", id)}
                     /\ Finish(running = "main", MkResult(cur.exec, TRUE, NoError, logs, FALSE))
                ELSE /\ tasks' = tasks \cup
                          {Task(cur.exec, op.body, 1, "call", id)}
                     /\ cur' = [cur EXCEPT !.pc = @ + 1]
                     /\ UNCHANGED <<running, results, hpc>>
             /\ UNCHANGED <<isolate, context>>
  /\ UNCHANGED <<variant, alive, created, logs, arrays, proxy, made, execs, disposeRun, raised>>
  /\ UNCHANGED <<facade, validateTypes, connected, availableTools, client, tools, subs, connects,
                 bVars, pcalls>>
  /\ UNCHANGED wVars

\* await of a timer or of a promise that never settles: the async wrapper
\* returns its pending promise and context.eval resolves.
StepSuspend ==
  /\ running # "none"
  /\ cur.pc <= Len(cur.prog)
  /\ cur.prog[cur.pc].op \in {"sleep", "hang"}
  /\ tasks' = tasks \cup
       {Task(cur.exec, cur.prog, cur.pc + 1,
             IF cur.prog[cur.pc].op = "sleep" THEN "timer" ELSE "never", 0)}
  /\ Finish(running = "main", MkResult(cur.exec, TRUE, NoError, logs, FALSE))
  /\ UNCHANGED <<variant, isolate, context, alive, created, logs, arrays, proxy,
                 calls, made, execs, disposeRun, raised>>
  /\ UNCHANGED <<facVars, wVars>>

\* A synchronous loop that never ends: eval's timeout terminates the script
\* and eval rejects with the timeout signature.
StepSpin ==
  /\ AtOp("spin")
  /\ running = "main"
  /\ running' = "none"
  /\ cur' = NoTask
  /\ Catch(cur.exec, <<TimeoutSig, ".">>)
  /\ UNCHANGED <<variant, alive, created, logs, arrays, proxy,
                 tasks, calls, made, execs, disposeRun, raised>>
  /\ UNCHANGED <<facVars, wVars>>

\* Allocation beyond the memory ceiling: isolated-vm disposes the isolate and
\* all that is suspended in it. Under context.eval, eval rejects with the
\* disposal signature and the catch block drops both references; in a
\* callback that runs after eval has returned, no catch block is there and
\* the references stay.
StepAlloc ==
  /\ AtOp("alloc")
  /\ alive' = alive \ {isolate}
  /\ tasks' = {t \in tasks : t.wk = "main"}
  /\ running' = "none"
  /\ cur' = NoTask
  /\ IF running = "main"
     THEN Catch(cur.exec, <<DisposedSig, " during execution due to memory limit">>)
     ELSE UNCHANGED <<results, hpc, isolate, context>>
  /\ UNCHANGED <<variant, created, logs, arrays, proxy, calls, made, execs,
                 disposeRun, raised>>
  /\ UNCHANGED <<facVars, wVars>>

StepThrow ==
  /\ AtOp("throw")
  /\ Raise(cur.prog[cur.pc].msg)
  /\ UNCHANGED <<variant, alive, created, logs, arrays, proxy, tasks, calls, made,
                 execs, disposeRun, raised>>
  /\ UNCHANGED <<facVars, wVars>>

\* The code ran off its end: eval resolves and execute returns success.
StepEnd ==
  /\ running # "none"
  /\ cur.pc > Len(cur.prog)
  /\ Finish(running = "main", MkResult(cur.exec, TRUE, NoError, logs, TRUE))
  /\ UNCHANGED <<variant, isolate, context, alive, created, logs, arrays, proxy,
                 tasks, calls, made, execs, disposeRun, raised>>
  /\ UNCHANGED <<facVars, wVars>>

\* The execution has ended by timeout.
TimedOut(e) == \E i \in 1..Len(results) : results[i].exec = e /\ results[i].error.kind = "timeout"

Waiting(c) == {t \in tasks : t.wk = "call" /\ t.wc = c}

\* The host handler's promise resolves: the promise inside the isolate
\* resolves and the code waiting on it becomes runnable, if its context lives.
ResolveCall(c) ==
  /\ calls[c].status = "pending"
  /\ ~calls[c].doomed
  /\ calls' = [calls EXCEPT ![c].status = IF Waiting(c) = {} THEN "discarded" ELSE "delivered",
                            ![c].late = TimedOut(calls[c].exec)]
  /\ tasks' = (tasks \ Waiting(c)) \cup
                {[t EXCEPT !.wk = "ready", !.wc = 0] : t \in Waiting(c)}
  /\ UNCHANGED <<variant, isolate, context, alive, created, logs, arrays, proxy, hpc,
                 running, cur, results, made, execs, disposeRun, raised>>
  /\ UNCHANGED <<facVars, wVars>>

\* The host handler's promise rejects: the error is raised inside the code
\* that waits on it, which does not catch it.
RejectCall(c) ==
  /\ calls[c].status = "pending"
  /\ calls' = [calls EXCEPT ![c].status = "rejected"]
  /\ tasks' = tasks \ Waiting(c)
  /\ UNCHANGED <<variant, isolate, context, alive, created, logs, arrays, proxy, hpc,
                 running, cur, results, made, execs, disposeRun, raised>>
  /\ UNCHANGED <<facVars, wVars>>

\* The host timer behind _setTimeout fires.
TimerFire ==
  /\ \E t \in tasks :
       /\ t.wk = "timer"
       /\ tasks' = (tasks \ {t}) \cup {[t EXCEPT !.wk = "ready"]}
  /\ UNCHANGED <<variant, isolate, context, alive, created, logs, arrays, proxy, hpc,
                 running, cur, calls, results, made, execs, disposeRun, raised>>
  /\ UNCHANGED <<facVars, wVars>>

\* dispose(): release the context, dispose the isolate, null both
\* references. Code suspended in the context dies with it. On an isolate that
\* isolated-vm has already disposed, release or dispose raises and the
\* references behind the raising statement stay.
dispose ==
  IF isolate # 0 /\ isolate \notin alive
  THEN /\ raised' = TRUE
       /\ context' \in {0, context}
       /\ UNCHANGED <<alive, isolate, tasks, running, cur>>
  ELSE /\ context' = 0
       /\ isolate' = 0
       /\ alive' = alive \ {isolate}
       /\ tasks' = {}
       /\ running' = "none"
       /\ cur' = NoTask
       /\ UNCHANGED raised

\* A caller of IsolatedSandbox calls dispose() between executions.
Dispose ==
  /\ hpc = "idle"
  /\ disposeRun < MaxDisposeRun
  /\ disposeRun' = disposeRun + 1
  /\ dispose
  /\ UNCHANGED <<variant, created, logs, arrays, proxy, hpc, calls, results, made, execs>>
  /\ UNCHANGED <<facVars, wVars>>

Execute ==
  /\ \E c \in IsoCalls : ExecuteStart(c.prog, c.h)
  /\ UNCHANGED <<facVars, wVars>>
Resolve == \E c \in 1..Len(calls) : ResolveCall(c)
Reject == \E c \in 1..Len(calls) : RejectCall(c)

NextIso ==
  \/ Execute
  \/ EvalBegin
  \/ ContBegin
  \/ StepLog
  \/ StepCall
  \/ StepSuspend
  \/ StepSpin
  \/ StepAlloc
  \/ StepThrow
  \/ StepEnd
  \/ Resolve
  \/ Reject
  \/ TimerFire
  \/ Dispose

SpecIso == InitIso /\ [][NextIso]_vars

----------------------------------------------------------------------------
(* Validator *)

\* The diagnostics ts.transpileModule reports: the malformed statements.
Diagnostics(code) == {i \in 1..Len(code) : code[i].op = "bad"}

\* The compiled user code: type-only statements are erased.
IsEmitted(stmt) == stmt.op # "typedecl"
extractUserCode(code) == SelectSeq(code, IsEmitted)

validate(code) ==
  IF Diagnostics(code) # {}
  THEN [success |-> FALSE, output |-> <<>>]
  ELSE [success |-> TRUE, output |-> extractUserCode(code)]

InList(list, x) == \E i \in 1..Len(list) : list[i] = x

\* /mcp\.(\w+)\(/ matches the call mcp.X( when X consists of word characters
\* only: any other character of X stands between mcp. and the parenthesis.
MatchesToolPattern(stmt) ==
  /\ stmt.op = "call"
  /\ Len(stmt.tool) > 0
  /\ \A i \in 1..Len(stmt.tool) : stmt.tool[i] \in WordChars

\* The identifiers the pattern captures, in order of first occurrence
RECURSIVE UsedTools(_)
UsedTools(code) ==
  IF code = <<>> THEN <<>>
  ELSE LET front == SubSeq(code, 1, Len(code) - 1)
           stmt == code[Len(code)]
       IN IF MatchesToolPattern(stmt) /\ ~InList(UsedTools(front), stmt.tool)
          THEN Append(UsedTools(front), stmt.tool)
          ELSE UsedTools(front)

ValidationFailed ==
  [kind |-> "validation", limit |-> 0, msg |-> <<"TypeScript validation failed">>, tools |-> <<>>]
UsageError(invalid) ==
  [kind |-> "usage", limit |-> 0, msg |-> <<"Code uses undefined MCP tools: ">>, tools |-> invalid]
NoFacadeError == [kind |-> "none", limit |-> 0, msg |-> <<>>, tools |-> <<>>]

validateMCPUsage(code, available) ==
  LET IsInvalid(tool) == ~InList(available, tool)
      invalidTools == SelectSeq(UsedTools(code), IsInvalid)
  IN IF Len(invalidTools) > 0
     THEN [success |-> FALSE, error |-> UsageError(invalidTools)]
     ELSE [success |-> TRUE, error |-> NoFacadeError]

----------------------------------------------------------------------------
(* MCPCodeMode *)

F_ok == <<TypeDecl, CallThen(ToolT, 1, <<Str("got")>>)>>
F_await == <<CallAwait(ToolAB, 1), Log("log", <<Str("done")>>)>>
F_unknown == <<Log("log", <<Str("go")>>), CallThen(ToolX, 1, <<Str("got")>>)>>
F_mixed == <<CallThen(ToolT, 1, <<Str("got")>>), CallThen(ToolX, 1, <<Str("got")>>)>>
F_bad == <<Bad, CallThen(ToolX, 1, <<Str("got")>>)>>
F_dollar == <<CallThen(ToolDollarX, 1, <<Str("got")>>)>>
F_spin == <<Spin>>

Submissions == {F_ok, F_await, F_unknown, F_mixed, F_bad, F_dollar, F_spin}

ToolSets ==
  { <<[name |-> NameT], [name |-> NameADashB]>>,
    <<[name |-> NameADashB], [name |-> NameAB]>> }

Names(ts) == [i \in 1..Len(ts) |-> ts[i].name]

\* The identifiers the generated interface declares on mcp.
KnownIdentifiers(ts) == {sanitizeName(ts[i].name) : i \in 1..Len(ts)}

InitFacade ==
  /\ variant \in {"fixed", "wrapped"}
  /\ \/ facade = "enhanced" /\ validateTypes \in BOOLEAN
     \/ facade = "basic" /\ validateTypes = FALSE
  /\ SandboxConstructed
  /\ FacadeConstructed
  /\ NoWorker

\* MCPCodeMode.connect on a bridge that is not connected
Connect(ts) ==
  /\ client = 0
  /\ connects < MaxConnects
  /\ connects' = connects + 1
  /\ client' = 1
  /\ tools' = ts
  /\ availableTools' = Names(ts)
  /\ connected' = TRUE
  /\ typeDefinitions' = generateTypeScriptDefinitions(ts)
  /\ fetched' = ts
  /\ UNCHANGED <<facade, validateTypes, sent, subs, handed, bcalls, pcalls>>
  /\ UNCHANGED <<isoVars, wVars>>

\* MCPCodeMode.disconnect between executions: bridge.disconnect, then
\* sandbox.dispose, then this.connected = false, which is not reached when
\* dispose raises.
Disconnect ==
  /\ hpc = "idle"
  /\ disposeRun < MaxDisposeRun
  /\ client' = 0
  /\ tools' = <<>>
  /\ dispose
  /\ disposeRun' = disposeRun + 1
  /\ connected' = IF isolate # 0 /\ isolate \notin alive THEN connected ELSE FALSE
  /\ typeDefinitions' = <<>>
  /\ fetched' = <<>>
  /\ UNCHANGED <<facade, validateTypes, availableTools, sent, subs, connects, handed, bcalls, pcalls>>
  /\ UNCHANGED wVars
  /\ UNCHANGED <<variant, created, logs, arrays, proxy, hpc, calls, results, made, execs>>

\* What became of one executeCode call: it raised because the facade was not
\* connected ("raised"), it returned a failure of its own before the sandbox
\* ("failed"), it handed the code to the sandbox, whose result it returns
\* ("executed"), or sandbox.execute raised and the facade returned a failure
\* ("caught") or let the error through to its caller ("thrown"). success,
\* error and output are the fields of the failure it returned; conn records
\* this.connected and known the identifiers the interface declared at the call.
Sub(code, options, outcome, err, e) ==
  [code |-> code, skip |-> options.skipValidation, timeoutMs |-> options.timeoutMs,
   outcome |-> outcome, success |-> FALSE, error |-> err, output |-> <<>>, exec |-> e,
   conn |-> connected, known |-> KnownIdentifiers(tools)]

\* errorMapper.formatError(mappedError) of an error sandbox.execute raised
MappedError(msg) == [kind |-> "mapped", limit |-> 0, msg |-> msg, tools |-> <<>>]

\* this.sandbox.execute(processedCode, mcpHandler, options) and what the
\* facade makes of it. IsolatedSandbox.execute takes (code, mcpHandler); when
\* it has to initialize, isolated-vm may fail to create the isolate, and
\* initialize is called outside the try block of execute: execute raises. The
\* enhanced facade catches and returns a failure, the basic one does not.
CallSandbox(code, options, processed) ==
  \/ /\ ExecuteStart(processed, "bridge")
     /\ subs' = Append(subs, Sub(code, options, "executed", NoFacadeError, Len(execs) + 1))
  \/ /\ isolate = 0 \/ context = 0
     /\ subs' = Append(subs, IF facade = "enhanced"
                              THEN Sub(code, options, "caught",
                                       MappedError(<<"Isolate creation failed">>), 0)
                              ELSE Sub(code, options, "thrown", NoFacadeError, 0))
     /\ UNCHANGED isoVars

ExecuteCode_IgnoresValidate(code, options) ==
  /\ hpc = "idle"
  /\ Len(subs) < MaxSubs
  /\ LET gate == validateTypes /\ ~options.skipValidation
         vr == validate(code)
         processed == IF gate /\ vr.success THEN vr.output ELSE code
     IN IF ~connected
        THEN /\ subs' = Append(subs, Sub(code, options, "raised", NoFacadeError, 0))
             /\ UNCHANGED isoVars
        ELSE CallSandbox(code, options, processed)
  /\ UNCHANGED <<facade, validateTypes, connected, availableTools, client, tools, sent, connects,
                 bVars, pcalls>>
  /\ UNCHANGED wVars

\* MCPCodeMode.executeCode(code, options) up to its return or to its call of
\* this.sandbox.execute(processedCode, mcpHandler, options).
ExecuteCode(code, options) ==
  /\ hpc = "idle"
  /\ Len(subs) < MaxSubs
  /\ LET gate == validateTypes /\ ~options.skipValidation
         vr == validate(code)
         processed == IF gate THEN vr.output ELSE code
         usage == validateMCPUsage(processed, availableTools)
     IN IF ~connected
        THEN /\ subs' = Append(subs, Sub(code, options, "raised", NoFacadeError, 0))
             /\ UNCHANGED isoVars
        ELSE IF gate /\ ~vr.success
        THEN /\ subs' = Append(subs, Sub(code, options, "failed", ValidationFailed, 0))
             /\ UNCHANGED isoVars
        ELSE IF gate /\ ~usage.success
        THEN /\ subs' = Append(subs, Sub(code, options, "failed", usage.error, 0))
             /\ UNCHANGED isoVars
        ELSE CallSandbox(code, options, processed)
  /\ UNCHANGED <<facade, validateTypes, connected, availableTools, client, tools, sent, connects,
                 bVars, pcalls>>
  /\ UNCHANGED wVars

\* The options of an executeCode call: skipValidation, and timeoutMs (0: not
\* given)
Options(skip, timeoutMs) == [skipValidation |-> skip, timeoutMs |-> timeoutMs]

\* The calls of executeCode(code, options): every code with no option, some
\* with skipValidation, the endless loop with a timeoutMs of its own.
FacadeCalls ==
  {[code |-> code, options |-> Options(FALSE, 0)] : code \in Submissions}
    \cup {[code |-> code, options |-> Options(TRUE, 0)] : code \in {F_unknown, F_bad}}
    \cup {[code |-> F_spin, options |-> Options(FALSE, 100)]}

ConnectAny == \E ts \in ToolSets : Connect(ts)
Submit == \E c \in FacadeCalls : ExecuteCode(c.code, c.options)

NextFacade ==
  \/ ConnectAny
  \/ Disconnect
  \/ Submit
  \/ EvalBegin
  \/ ContBegin
  \/ StepLog
  \/ StepCall
  \/ StepSpin
  \/ StepEnd
  \/ Resolve
  \/ Reject

SpecFacade == InitFacade /\ [][NextFacade]_vars

\* Code whose callback, run after executeCode has returned, allocates beyond
\* the memory ceiling.
F_leak == <<CallThenDo(ToolT, 1, <<Alloc>>)>>

SubmitLifecycle == \E code \in {F_await, F_leak} : ExecuteCode(code, Options(FALSE, 0))

\* MCPCodeMode through connect, executeCode and disconnect, with code that
\* may exhaust the isolate's memory.
NextLifecycle ==
  \/ ConnectAny
  \/ Disconnect
  \/ SubmitLifecycle
  \/ EvalBegin
  \/ ContBegin
  \/ StepLog
  \/ StepCall
  \/ StepAlloc
  \/ StepEnd
  \/ Resolve
  \/ Reject

SpecLifecycle == InitFacade /\ [][NextLifecycle]_vars

----------------------------------------------------------------------------
(* CodeSandbox: the worker-thread engine *)

CallAsync(tool, arg) == [op |-> "call", mode |-> "async", tool |-> tool, arg |-> arg]
AwaitAll == [op |-> "awaitall"]
Exit(code) == [op |-> "exit", code |-> code]

W_basic == <<Log("log", <<Str("Hello")>>), Log("error", <<Str("5 + 3 ="), Num("8")>>)>>
W_same == <<CallAsync(ToolT, 1), CallAsync(ToolT, 2), AwaitAll, Log("log", <<Str("both")>>)>>
W_diff == <<CallAsync(ToolT, 1), CallAsync(ToolAB, 1), AwaitAll>>
W_seq == <<CallAsync(ToolT, 1), AwaitAll, CallAsync(ToolT, 2), AwaitAll>>
W_spin == <<Log("log", <<Str("Starting")>>), Spin>>
W_late == <<CallAsync(ToolT, 1), Spin>>
W_throw == <<Log("log", <<Null, Cyclic>>), Throw(<<"boom">>)>>
W_exit == <<Exit(0)>>
W_bad == <<Bad>>

WorkerPrograms == {W_basic, W_same, W_diff, W_seq, W_spin, W_late, W_throw, W_exit, W_bad}

\* The worker's console override: every method formats alike, objects with
\* JSON.stringify(arg, null, 2)
FormatArgWorker(arg) ==
  IF arg.t = "null" THEN "null"
  ELSE IF arg.t = "obj" THEN (IF arg.v = "<cyclic>" THEN "[object]" ELSE arg.p)
  ELSE IF arg.t = "undef" THEN "undefined"
  ELSE arg.v

WorkerLine(args) == JoinSpace([i \in 1..Len(args) |-> FormatArgWorker(args[i])])

WorkerTimeout == [kind |-> "timeout", limit |-> 0, msg |-> <<"Execution timeout">>]
WorkerExited(code) == [kind |-> "exit", limit |-> code, msg |-> <<"Worker exited with code ">>]

\* resolve(...) of the promise execute returns: only the first call counts.
ResolveWith(r) == wresult' = IF wresult = <<>> THEN <<r>> ELSE wresult

\* worker.terminate(): the worker stops, what it had posted and what was
\* posted to it is lost, and its exit event follows.
Terminate(queue) ==
  /\ wphase' = "dead"
  /\ toWorker' = <<>>
  /\ toHost' = IF wphase = "dead" THEN queue ELSE <<[type |-> "exit", code |-> 1]>>

\* execute(code, mcpHandler, options): a new worker and the timeout timer
WStart(prog) ==
  /\ runs < MaxRuns
  /\ wphase \in {"none", "dead"}
  /\ toHost = <<>>
  /\ \A k \in 1..Len(hcalls) : hcalls[k].status # "pending"
  /\ runs' = runs + 1
  /\ wphase' = "run"
  /\ wprog' = prog
  /\ wpc' = 1
  /\ wlogs' = <<>>
  /\ listeners' = {}
  /\ settled' = <<>>
  /\ toHost' = <<>>
  /\ toWorker' = <<>>
  /\ hcalls' = <<>>
  /\ completed' = FALSE
  /\ timerArmed' = TRUE
  /\ wresult' = <<>>

WExecute(prog) ==
  /\ WStart(prog)
  /\ UNCHANGED <<isoVars, facVars>>

AtW(name) ==
  /\ wphase = "run"
  /\ wpc <= Len(wprog)
  /\ wprog[wpc].op = name

WCompiles == \A i \in 1..Len(wprog) : wprog[i].op # "bad"

\* The worker cannot compile its code: an error event, then its exit.
WCrash ==
  /\ wphase = "run"
  /\ wpc = 1
  /\ ~WCompiles
  /\ wphase' = "dead"
  /\ toHost' = toHost \o <<[type |-> "error", msg |-> <<"SyntaxError">>],
                           [type |-> "exit", code |-> 1]>>
  /\ UNCHANGED <<wprog, wpc, wlogs, listeners, settled, toWorker, hcalls, completed,
                 timerArmed, wresult, runs>>
  /\ UNCHANGED <<isoVars, facVars>>

\* console[method](...args) inside the worker
WStepLog ==
  /\ AtW("log")
  /\ WCompiles
  /\ wlogs' = Append(wlogs, WorkerLine(wprog[wpc].args))
  /\ wpc' = wpc + 1
  /\ UNCHANGED <<wphase, wprog, listeners, settled, toHost, toWorker, hcalls, completed,
                 timerArmed, wresult, runs>>
  /\ UNCHANGED <<isoVars, facVars>>

\* mcp.X(input) inside the worker: post the mcp-call message and listen for
\* an mcp-result message whose method is X.
WStepCall ==
  /\ AtW("call")
  /\ WCompiles
  /\ LET id == Len(settled) + 1
     IN /\ toHost' = Append(toHost, [type |-> "mcp-call", method |-> wprog[wpc].tool,
                                     args |-> wprog[wpc].arg, id |-> id])
        /\ listeners' = listeners \cup {[id |-> id, prop |-> wprog[wpc].tool]}
        /\ settled' = Append(settled, [state |-> "pending", from |-> 0, arg |-> 0])
  /\ wpc' = wpc + 1
  /\ UNCHANGED <<wphase, wprog, wlogs, toWorker, hcalls, completed, timerArmed, wresult, runs>>
  /\ UNCHANGED <<isoVars, facVars>>

\* The worker handles an mcp-result message while its code awaits: every
\* listener whose prop equals the message's method settles its promise with
\* the message and removes itself.
WDeliver ==
  /\ AtW("awaitall")
  /\ toWorker # <<>>
  /\ LET msg == Head(toWorker)
         hit == {l \in listeners : l.prop = msg.method}
     IN /\ listeners' = listeners \ hit
        /\ settled' = [c \in 1..Len(settled) |->
                         IF \E l \in hit : l.id = c
                         THEN [state |-> IF msg.ok THEN "resolved" ELSE "rejected",
                               from |-> msg.from, arg |-> msg.arg]
                         ELSE settled[c]]
  /\ toWorker' = Tail(toWorker)
  /\ UNCHANGED <<wphase, wprog, wpc, wlogs, toHost, hcalls, completed, timerArmed, wresult, runs>>
  /\ UNCHANGED <<isoVars, facVars>>

\* The awaited calls have settled: the code goes on, or the rejection is
\* caught by the wrapper, which logs it and posts the complete message.
WStepAwait ==
  /\ AtW("awaitall")
  /\ IF \E c \in 1..Len(settled) : settled[c].state = "rejected"
     THEN /\ wlogs' = Append(wlogs, "Error: rejected")
          /\ toHost' = Append(toHost, [type |-> "complete", logs |-> wlogs'])
          /\ wphase' = "done"
          /\ UNCHANGED wpc
     ELSE /\ \A c \in 1..Len(settled) : settled[c].state = "resolved"
          /\ wpc' = wpc + 1
          /\ UNCHANGED <<wlogs, toHost, wphase>>
  /\ UNCHANGED <<wprog, listeners, settled, toWorker, hcalls, completed, timerArmed, wresult, runs>>
  /\ UNCHANGED <<isoVars, facVars>>

\* An uncaught error of the code: the wrapper's catch pushes it on logs and
\* the complete message is posted all the same.
WStepThrow ==
  /\ AtW("throw")
  /\ WCompiles
  /\ wlogs' = Append(wlogs, "Error: thrown")
  /\ toHost' = Append(toHost, [type |-> "complete", logs |-> wlogs'])
  /\ wphase' = "done"
  /\ UNCHANGED <<wprog, wpc, listeners, settled, toWorker, hcalls, completed, timerArmed,
                 wresult, runs>>
  /\ UNCHANGED <<isoVars, facVars>>

\* The code ran off its end: post the complete message.
WStepEnd ==
  /\ wphase = "run"
  /\ wpc > Len(wprog)
  /\ toHost' = Append(toHost, [type |-> "complete", logs |-> wlogs])
  /\ wphase' = "done"
  /\ UNCHANGED <<wprog, wpc, wlogs, listeners, settled, toWorker, hcalls, completed,
                 timerArmed, wresult, runs>>
  /\ UNCHANGED <<isoVars, facVars>>

\* The code ends its own thread (process.exit): an exit event with its code.
WStepExit ==
  /\ AtW("exit")
  /\ WCompiles
  /\ wphase' = "dead"
  /\ toHost' = Append(toHost, [type |-> "exit", code |-> wprog[wpc].code])
  /\ UNCHANGED <<wprog, wpc, wlogs, listeners, settled, toWorker, hcalls, completed,
                 timerArmed, wresult, runs>>
  /\ UNCHANGED <<isoVars, facVars>>

\* worker.on('message'), msg.type === 'mcp-call': invoke mcpHandler
HandleMcpCall ==
  /\ toHost # <<>>
  /\ Head(toHost).type = "mcp-call"
  /\ hcalls' = Append(hcalls, [id |-> Head(toHost).id, method |-> Head(toHost).method,
                               args |-> Head(toHost).args, status |-> "pending"])
  /\ toHost' = Tail(toHost)
  /\ UNCHANGED <<wphase, wprog, wpc, wlogs, listeners, settled, toWorker, completed,
                 timerArmed, wresult, runs>>
  /\ UNCHANGED <<isoVars, facVars>>

\* mcpHandler has settled: post the mcp-result message, tagged with the
\* method alone (ok: resolved or rejected). from and arg record which call
\* the response was produced for.
HandlerSettles(k, ok) ==
  /\ hcalls[k].status = "pending"
  /\ hcalls' = [hcalls EXCEPT ![k].status = "settled"]
  /\ toWorker' = IF wphase = "dead" THEN toWorker
                 ELSE Append(toWorker, [type |-> "mcp-result", method |-> hcalls[k].method,
                                        ok |-> ok, from |-> hcalls[k].id, arg |-> hcalls[k].args])
  /\ UNCHANGED <<wphase, wprog, wpc, wlogs, listeners, settled, toHost, completed,
                 timerArmed, wresult, runs>>
  /\ UNCHANGED <<isoVars, facVars>>

\* worker.on('message'), msg.type === 'complete'
HandleComplete ==
  /\ toHost # <<>>
  /\ Head(toHost).type = "complete"
  /\ completed' = TRUE
  /\ timerArmed' = FALSE
  /\ Terminate(Tail(toHost))
  /\ ResolveWith([success |-> TRUE, output |-> Head(toHost).logs, error |-> NoError])
  /\ UNCHANGED <<wprog, wpc, wlogs, listeners, settled, hcalls, runs>>
  /\ UNCHANGED <<isoVars, facVars>>

\* worker.on('error')
HandleError ==
  /\ toHost # <<>>
  /\ Head(toHost).type = "error"
  /\ completed' = TRUE
  /\ timerArmed' = FALSE
  /\ toHost' = Tail(toHost)
  /\ ResolveWith([success |-> FALSE, output |-> <<>>, error |-> Verbatim(Head(toHost).msg)])
  /\ UNCHANGED <<wphase, wprog, wpc, wlogs, listeners, settled, toWorker, hcalls, runs>>
  /\ UNCHANGED <<isoVars, facVars>>

\* worker.on('exit')
HandleExit ==
  /\ toHost # <<>>
  /\ Head(toHost).type = "exit"
  /\ toHost' = Tail(toHost)
  /\ IF ~completed
     THEN /\ completed' = TRUE
          /\ timerArmed' = FALSE
          /\ IF Head(toHost).code # 0
             THEN ResolveWith([success |-> FALSE, output |-> <<>>,
                               error |-> WorkerExited(Head(toHost).code)])
             ELSE UNCHANGED wresult
     ELSE UNCHANGED <<completed, timerArmed, wresult>>
  /\ UNCHANGED <<wphase, wprog, wpc, wlogs, listeners, settled, toWorker, hcalls, runs>>
  /\ UNCHANGED <<isoVars, facVars>>

\* The setTimeout callback of execute
HandleTimeout ==
  /\ timerArmed
  /\ timerArmed' = FALSE
  /\ IF ~completed
     THEN /\ Terminate(toHost)
          /\ ResolveWith([success |-> FALSE, output |-> <<>>, error |-> WorkerTimeout])
     ELSE UNCHANGED <<wphase, toWorker, toHost, wresult>>
  /\ UNCHANGED <<wprog, wpc, wlogs, listeners, settled, hcalls, completed, runs>>
  /\ UNCHANGED <<isoVars, facVars>>

WorkerExecute == \E prog \in WorkerPrograms : WExecute(prog)
HandlerResolves == \E k \in 1..Len(hcalls) : HandlerSettles(k, TRUE)
HandlerRejects == \E k \in 1..Len(hcalls) : HandlerSettles(k, FALSE)

InitWorker ==
  /\ variant = "fixed"
  /\ facade = "enhanced"
  /\ validateTypes = TRUE
  /\ SandboxConstructed
  /\ FacadeConstructed
  /\ NoWorker

NextWorker ==
  \/ WorkerExecute
  \/ WCrash
  \/ WStepLog
  \/ WStepCall
  \/ WDeliver
  \/ WStepAwait
  \/ WStepThrow
  \/ WStepEnd
  \/ WStepExit
  \/ HandleMcpCall
  \/ HandlerResolves
  \/ HandlerRejects
  \/ HandleComplete
  \/ HandleError
  \/ HandleExit
  \/ HandleTimeout

SpecWorker == InitWorker /\ [][NextWorker]_vars

\* C1 (as claimed): each pending bridge call of the worker code settles with
\* the response the host handler produced for that very call, never with the
\* response produced for another call.
C1_OwnResponse ==
  \A c \in 1..Len(settled) :
    settled[c].state # "pending" => settled[c].from = c

----------------------------------------------------------------------------
(* The two engines side by side: one code handed to both *)

PairPrograms == {W_basic, W_spin, W_throw, P_console}

InitPair ==
  /\ variant = "fixed"
  /\ facade = "enhanced"
  /\ validateTypes = TRUE
  /\ SandboxConstructed
  /\ FacadeConstructed
  /\ NoWorker

\* The same code is handed to IsolatedSandbox.execute and CodeSandbox.execute.
PairExecute ==
  /\ \E prog \in PairPrograms :
       /\ ExecuteStart(prog, NoHandler)
       /\ WStart(prog)
  /\ UNCHANGED facVars

NextPair ==
  \/ PairExecute
  \/ EvalBegin
  \/ StepLog
  \/ StepSpin
  \/ StepThrow
  \/ StepEnd
  \/ WStepLog
  \/ WStepThrow
  \/ WStepEnd
  \/ HandleComplete
  \/ HandleExit
  \/ HandleTimeout

SpecPair == InitPair /\ [][NextPair]_vars

\* C11 (as claimed): when the host handler rejects a call that the code
\* awaits and the code does not catch the error, the result of the execution
\* has success=false.
C11_RejectionFailsRun ==
  \A i \in 1..Len(wresult) :
    (\E c \in 1..Len(settled) : settled[c].state = "rejected") => ~wresult[i].success

----------------------------------------------------------------------------
(* Properties of MCPCodeMode.executeCode *)

\* The executeCode call reached the validation gate: the facade was
\* connected, validation is enabled and the call did not skip it.
GateReached(s) == s.outcome # "raised" /\ validateTypes /\ ~s.skip

CalledTools(code) == {code[i].tool : i \in {j \in 1..Len(code) : code[j].op = "call"}}

\* sandbox.execute and the bridge are entered only on behalf of executeCode
\* calls that handed their code to the sandbox.
OnlyExecutedReachSandbox ==
  /\ Len(execs) = Cardinality({i \in 1..Len(subs) : subs[i].outcome = "executed"})
  /\ \A c \in 1..Len(calls) :
       \E i \in 1..Len(subs) : subs[i].outcome = "executed" /\ subs[i].exec = calls[c].exec
  /\ \A k \in 1..Len(sent) : sent[k].call \in 1..Len(calls)

\* C2 (as claimed): with validation enabled and not skipped, code that calls
\* mcp.X( for an X that is no known tool identifier gets a failure result and
\* never reaches sandbox.execute or the bridge; the error names X (read for
\* code that compiles: code with diagnostics gets the validation failure).
C2_UnknownToolRejected ==
  \A i \in 1..Len(subs) :
    \A X \in CalledTools(subs[i].code) \ subs[i].known :
      GateReached(subs[i]) =>
        /\ subs[i].outcome = "failed"
        /\ ~subs[i].success
        /\ subs[i].exec = 0
        /\ \A c \in 1..Len(calls) : calls[c].exec # subs[i].exec
        /\ IF Diagnostics(subs[i].code) = {}
           THEN subs[i].error.kind = "usage" /\ InList(subs[i].error.tools, X)
           ELSE subs[i].error = ValidationFailed

\* C3: whenever validate returns success=false for the code of an
\* executeCode call, the call returns success=false with empty output and
\* neither sandbox.execute nor the bridge is entered for it.
C3_ValidationFailureStops ==
  /\ OnlyExecutedReachSandbox
  /\ \A i \in 1..Len(subs) :
       (GateReached(subs[i]) /\ ~validate(subs[i].code).success) =>
         /\ subs[i].outcome = "failed"
         /\ ~subs[i].success
         /\ subs[i].output = <<>>
         /\ subs[i].exec = 0

\* C3 witness: code for which validate fails was refused, and another call's
\* code has run in the sandbox and called the bridge.
C3_RefusedOnDiagnostics ==
  \E i \in 1..Len(subs) :
    /\ GateReached(subs[i])
    /\ ~validate(subs[i].code).success
    /\ subs[i].error = ValidationFailed
    /\ Len(execs) = 1
    /\ Len(calls) > 0

----------------------------------------------------------------------------
(* Properties of IsolatedSandbox *)

Last(seq) == seq[Len(seq)]
Returned == Len(results') = Len(results) + 1
Started == Len(execs') = Len(execs) + 1

\* The lines that a sequence of console calls is meant to produce: one line
\* per call, its arguments joined by one space, error and warn prefixed.
ExpectedLines(cs) == [i \in 1..Len(cs) |-> _logSync(ConsoleArgs(cs[i].m, cs[i].args))]

\* C4: an execution that exceeds the memory ceiling returns success=false
\* with a memory-limit error and leaves isolate and context null; the next
\* execute, with no dispose in between, creates a new isolate and context.
C4_MemoryTeardown ==
  [][ /\ (running = "main" /\ AtOp("alloc") /\ Returned) =>
           /\ ~Last(results').success
           /\ Last(results').error.kind = "memory"
           /\ isolate' = 0
           /\ context' = 0
      /\ (Started /\ results # <<>> /\ Last(results).error.kind = "memory" /\ disposeRun = 0) =>
           /\ isolate' = created + 1
           /\ isolate' \notin alive
           /\ isolate' \in alive'
           /\ context' = isolate'
    ]_vars

\* C4 witness: after a memory teardown and no dispose, a second execute ran on
\* a new isolate and completed successfully.
C4_Recovered ==
  /\ Len(results) = 2
  /\ results[1].error.kind = "memory"
  /\ execs[2].prior = 0
  /\ execs[2].iso # execs[1].iso
  /\ results[2].success
  /\ results[2].done

\* C5: an execution that times out returns success=false with a timeout
\* error and leaves isolate and context as they were; the next execute reuses
\* them; the references are cleared only by dispose or by the memory-limit
\* branch of the catch block.
C5_TimeoutKeepsContext ==
  [][ /\ (running = "main" /\ AtOp("spin") /\ Returned) =>
           /\ ~Last(results').success
           /\ Last(results').error.kind = "timeout"
           /\ isolate # 0
           /\ isolate' = isolate
           /\ context' = context
           /\ isolate \in alive'
      /\ (Started /\ results # <<>> /\ Last(results).error.kind = "timeout" /\ disposeRun = 0) =>
           /\ isolate' = isolate
           /\ context' = context
           /\ created' = created
      /\ ((isolate # 0 /\ isolate' = 0) \/ (context # 0 /\ context' = 0)) =>
           \/ disposeRun' = disposeRun + 1
           \/ Returned /\ Last(results').error.kind = "memory"
    ]_vars

\* C5 witness: after a timeout and no dispose, a second execute ran in the
\* same isolate and succeeded.
C5_Reused ==
  /\ Len(results) = 2
  /\ results[1].error.kind = "timeout"
  /\ execs[2].prior = 0
  /\ execs[2].iso = execs[1].iso
  /\ results[2].success

\* C6 (as claimed): for code that never terminates, execute returns
\* success=false with a timeout error: so for code whose top level ends in
\* an endless loop or an endless wait, and so for the execution whose code is
\* inside an endless loop now.
NeverTerminates(prog, h) ==
  \E i \in 1..Len(prog) :
    /\ prog[i].op \in {"spin", "hang"}
    /\ \A j \in 1..(i - 1) :
         \/ prog[j].op = "log"
         \/ prog[j].op = "call" /\ prog[j].mode = "then" /\ h # NoHandler

C6_NonTerminationTimesOut ==
  \A i \in 1..Len(results) :
    LET prog == execs[results[i].exec].prog
        h == execs[results[i].exec].h
        spinning == AtOp("spin") /\ cur.exec = results[i].exec
    IN ((NeverTerminates(prog, h) /\ ~HasSyntaxError(variant, prog)) \/ spinning) =>
         (~results[i].success /\ results[i].error.kind = "timeout")

\* C7 (as claimed): execute returns only after the code has run to
\* completion: a success result is never returned while the code is
\* suspended, and every line the code logs is in the returned output.
C7_RunsToCompletion ==
  \A i \in 1..Len(results) :
    results[i].success =>
      /\ results[i].done
      /\ ExpectedLines(made[results[i].exec]) = results[i].snap

\* C8 (as claimed): the output of a result is exactly the sequence of console
\* calls the code made during that execution, in order, one line per call.
C8_OutputIsConsoleCalls ==
  \A i \in 1..Len(results) :
    /\ results[i].output # Undefined
    /\ results[i].snap = ExpectedLines(results[i].made)

\* C9 (as claimed): dispose leaves no isolate and no context and never raises, however
\* often and in whatever state it is called; the first execute after a
\* dispose starts from a new isolate with nothing left of the old context.
C9_DisposeIdempotent ==
  /\ [](disposeRun > 0 => (isolate = 0 /\ context = 0))
  /\ [](~raised)
  /\ [][ (Started /\ disposeRun > 0) =>
           /\ isolate' = created + 1
           /\ isolate' \notin alive
           /\ isolate' \in alive'
           /\ context' = isolate'
           /\ proxy' = Last(execs').h
           /\ \A t \in tasks' : t.exec = Len(execs')
       ]_vars

\* C10 (as claimed): once an execution has ended by timeout, a handler result
\* that arrives later is not delivered to code in the context, and the
\* output of the result already returned does not change.
C10_LateResultDiscarded ==
  /\ \A c \in 1..Len(calls) : calls[c].late => calls[c].status # "delivered"
  /\ \A i \in 1..Len(results) :
       (results[i].error.kind = "timeout" /\ results[i].output # Undefined) =>
         arrays[results[i].output] = results[i].snap

\* C12: a failed evaluation is classified in a fixed order: timeout when the
\* message carries the timeout signature, whatever else it carries; else
\* memory limit when it carries the disposal signature; else the message is
\* reported as it is. One class per failure.
C12_ClassifiedInOrder ==
  \A i \in 1..Len(results) :
    ~results[i].success =>
      LET msg == results[i].raw
          err == results[i].error
      IN /\ Includes(msg, TimeoutSig) => err = TimeoutError
         /\ (~Includes(msg, TimeoutSig) /\ Includes(msg, DisposedSig)) => err = MemoryError
         /\ (~Includes(msg, TimeoutSig) /\ ~Includes(msg, DisposedSig)) =>
              (err.kind = "message" /\ err.msg = msg)

\* C12 witness: failures of all three classes have been returned, one of them
\* for a message that carries both signatures.
C12_BothSignatures ==
  /\ \E i \in 1..Len(results) :
       /\ Includes(results[i].raw, TimeoutSig)
       /\ Includes(results[i].raw, DisposedSig)
       /\ results[i].error.kind = "timeout"
  /\ \E i \in 1..Len(results) : results[i].error.kind \in {"memory", "message"}

\* C13 (as claimed): every result carries an output that is a sequence of
\* lines, on success and on every failure class; it is never undefined.
C13_OutputIsSequence ==
  \A i \in 1..Len(results) :
    /\ results[i].success \in BOOLEAN
    /\ results[i].output # Undefined
    /\ results[i].output \in 1..Len(arrays)

\* C14 (as claimed): handed the same code, the two engines return the same
\* success flag, the same failure class and the same output lines. The
\* worker's result is compared when its timer fired in the endless loop of
\* the code, or did not fire at all.
C14_SameContract ==
  \A i \in 1..Len(results), j \in 1..Len(wresult) :
    LET prog == execs[results[i].exec].prog
        ends == \A k \in 1..Len(prog) : prog[k].op # "spin"
        fair == IF ends THEN wresult[j].error.kind # "timeout"
                ELSE wpc <= Len(wprog) /\ wprog[wpc].op = "spin"
    IN (prog = wprog /\ fair) =>
         /\ results[i].success = wresult[j].success
         /\ results[i].error.kind = wresult[j].error.kind
         /\ results[i].snap = wresult[j].output

\* C15 (as claimed): executeCode raises to its caller only when the facade
\* is not connected; a connected facade returns every failure as a result.
C15_OnlyDisconnectedRaises ==
  \A i \in 1..Len(subs) :
    /\ subs[i].outcome \in {"raised", "thrown"} => ~subs[i].conn
    /\ subs[i].conn => subs[i].outcome \in {"failed", "caught", "executed"}

\* C17 (as claimed): the timeout enforced on an execution started by
\* executeCode(code, options) is options.timeoutMs when given, and the
\* configured default otherwise.
C17_OptionTimeoutEnforced ==
  \A i \in 1..Len(subs), k \in 1..Len(results) :
    (subs[i].outcome = "executed" /\ results[k].exec = subs[i].exec
       /\ results[k].error.kind = "timeout") =>
      results[k].error.limit =
        IF subs[i].timeoutMs # 0 THEN subs[i].timeoutMs ELSE DefaultTimeout

\* C16: constructing the sandbox creates no isolate; the first execute
\* creates the first one; every isolate is created by an execute; an execute
\* that follows another with no dispose and no memory-limit result in between
\* runs in the same isolate. A memory-limit failure reports the configured
\* ceiling.
C16_LazyAndReused ==
  /\ execs = <<>> => (created = 0 /\ isolate = 0 /\ context = 0)
  /\ created = Cardinality({execs[e].iso : e \in 1..Len(execs)})
  /\ \A e \in 2..Len(execs) :
       (/\ execs[e].prior = 0
        /\ \A k \in 1..Len(results) :
             results[k].exec = e - 1 => results[k].error.kind # "memory") =>
         execs[e].iso = execs[e - 1].iso
  /\ \A k \in 1..Len(results) :
       results[k].error.kind = "memory" => results[k].error.limit = DefaultMemoryLimit

\* C16 witness: two executions have completed in one isolate, the only one
\* created.
C16_SecondRunReused ==
  /\ Len(results) = 2
  /\ results[1].success
  /\ results[2].success
  /\ results[2].exec = 2
  /\ execs[2].iso = execs[1].iso
  /\ created = 1

\* C18 (as claimed): an execution that starts after a dispose or after a memory-limit
\* teardown finds nothing of the earlier executions: the code suspended in the
\* old context is gone, the handler behind mcp in a new context is its own,
\* and the lines of its result are lines its own code produced.
C18_NothingLeaksAcrossTeardown ==
  /\ [][ (Started /\ (disposeRun > 0
                        \/ (results # <<>> /\ Last(results).error.kind = "memory"))) =>
            /\ \A t \in tasks' : t.exec = Len(execs')
            /\ isolate' \in alive' => (isolate' \notin alive /\ proxy' = Last(execs').h)
       ]_vars
  /\ [](\A k \in 1..Len(results) :
         LET e == results[k].exec
         IN (e > 1 /\ (execs[e].prior > 0 \/ execs[e].iso # execs[e - 1].iso)) =>
              results[k].snap \in {ExpectedLines(results[k].made), <<>>})

----------------------------------------------------------------------------
(* MCPBridge called directly *)

MaxBridgeConnects == 2
MaxBridgeCalls == 2
MaxHanded == 1
MaxArray == 3

BridgeNames == {ToolT, ToolAB, NameADashB, ToolX}

\* A descriptor the tool source never listed, which a caller may put into an
\* array it holds.
Foreign == [name |-> ToolX]

InitBridge ==
  /\ variant = "fixed"
  /\ facade = "enhanced"
  /\ validateTypes = TRUE
  /\ SandboxConstructed
  /\ FacadeConstructed
  /\ NoWorker

\* MCPBridge.connect on a bridge whose client is null, listTools answering ts
BridgeConnect(ts) ==
  /\ client = 0
  /\ connects < MaxBridgeConnects
  /\ connects' = connects + 1
  /\ client' = 1
  /\ tools' = ts
  /\ fetched' = ts
  /\ typeDefinitions' = generateTypeScriptDefinitions(ts)
  /\ UNCHANGED <<facade, validateTypes, connected, availableTools, sent, subs, handed, bcalls, pcalls>>
  /\ UNCHANGED <<isoVars, wVars>>

BridgeConnectAny == \E ts \in ToolSets : BridgeConnect(ts)

\* MCPBridge.connect whose client.connect or listTools rejects: this.client
\* is already assigned, nothing was fetched.
BridgeConnectFails ==
  /\ client = 0
  /\ connects < MaxBridgeConnects
  /\ connects' = connects + 1
  /\ client' = 1
  /\ UNCHANGED <<facade, validateTypes, connected, availableTools, tools, sent, subs, bVars, pcalls>>
  /\ UNCHANGED <<isoVars, wVars>>

\* MCPBridge.disconnect on a bridge whose client is set. this.tools becomes
\* a new empty array: an array handed out before is no longer the held one.
BridgeDisconnect ==
  /\ client # 0
  /\ client' = 0
  /\ tools' = <<>>
  /\ typeDefinitions' = <<>>
  /\ fetched' = <<>>
  /\ handed' = [k \in 1..Len(handed) |-> [handed[k] EXCEPT !.shared = FALSE]]
  /\ UNCHANGED <<facade, validateTypes, connected, availableTools, sent, subs, connects, bcalls, pcalls>>
  /\ UNCHANGED <<isoVars, wVars>>

\* MCPBridge.callTool(toolName, args) by a caller of the bridge
BridgeCallTool(toolName) ==
  /\ Len(bcalls) < MaxBridgeCalls
  /\ LET r == callTool(client, tools, toolName)
     IN /\ bcalls' = Append(bcalls, [name |-> toolName, cl |-> client, fetched |-> fetched,
                                     error |-> r.error, sentAs |-> r.sentAs])
        /\ sent' = IF r.sentAs # NoName
                   THEN Append(sent, [name |-> r.sentAs, arg |-> 1, call |-> Len(bcalls) + 1])
                   ELSE sent
  /\ UNCHANGED <<facade, validateTypes, connected, availableTools, client, tools, subs, connects,
                 typeDefinitions, fetched, handed, pcalls>>
  /\ UNCHANGED <<isoVars, wVars>>

BridgeCallAny == \E toolName \in BridgeNames : BridgeCallTool(toolName)

getTools_ReturnsHeld == [kind |-> "tools", shared |-> TRUE, items |-> tools]

\* return [...this.tools]: a new array of the held descriptors
getTools == [kind |-> "tools", shared |-> FALSE, items |-> tools]

\* return this.typeDefinitions: a string, which nothing can change
getTypeDefinitions == [kind |-> "text", shared |-> FALSE, items |-> typeDefinitions]

GetTools ==
  /\ Len(handed) < MaxHanded
  /\ handed' = Append(handed, getTools)
  /\ UNCHANGED <<facade, validateTypes, connected, availableTools, client, tools, sent, subs,
                 connects, typeDefinitions, fetched, bcalls, pcalls>>
  /\ UNCHANGED <<isoVars, wVars>>

GetTypeDefinitions ==
  /\ Len(handed) < MaxHanded
  /\ handed' = Append(handed, getTypeDefinitions)
  /\ UNCHANGED <<facade, validateTypes, connected, availableTools, client, tools, sent, subs,
                 connects, typeDefinitions, fetched, bcalls, pcalls>>
  /\ UNCHANGED <<isoVars, wVars>>

\* What push, pop and an assignment to the first slot make of an array
Mutations(arr) ==
  (IF Len(arr) < MaxArray THEN {Append(arr, Foreign)} ELSE {})
    \cup (IF Len(arr) > 0
          THEN {SubSeq(arr, 1, Len(arr) - 1), [arr EXCEPT ![1] = Foreign]}
          ELSE {})

\* The caller changes an array that getTools returned. The held array
\* changes with it only when it is the same array.
MutateHanded ==
  /\ \E k \in 1..Len(handed) :
       /\ handed[k].kind = "tools"
       /\ \E new \in Mutations(handed[k].items) :
            /\ new # handed[k].items
            /\ handed' = [handed EXCEPT ![k].items = new]
            /\ tools' = IF handed[k].shared THEN new ELSE tools
  /\ UNCHANGED <<facade, validateTypes, connected, availableTools, client, sent, subs,
                 connects, typeDefinitions, fetched, bcalls, pcalls>>
  /\ UNCHANGED <<isoVars, wVars>>

NextBridge ==
  \/ BridgeConnectAny
  \/ BridgeConnectFails
  \/ BridgeDisconnect
  \/ BridgeCallAny
  \/ GetTools
  \/ GetTypeDefinitions
  \/ MutateHanded

SpecBridge == InitBridge /\ [][NextBridge]_vars

\* The fetched descriptors a name matches, as an original name or as the
\* identifier made of one.
Matching(ts, toolName) ==
  {i \in 1..Len(ts) : ts[i].name = toolName \/ sanitizeName(ts[i].name) = toolName}

\* C19: callTool on a bridge that is not connected raises and sends nothing;
\* callTool with a name that matches no fetched descriptor, neither as an
\* original name nor as a sanitized identifier, raises the unknown-tool
\* error and sends nothing; and every request that reached the tool source
\* was sent by a callTool call under the original name of a descriptor
\* fetched by the connect in place.
C19_UnknownNameNotDispatched ==
  /\ \A k \in 1..Len(bcalls) :
       LET b == bcalls[k]
       IN /\ b.cl = 0 =>
               b.error = <<"Not connected to MCP server">> /\ b.sentAs = NoName
          /\ (b.cl # 0 /\ Matching(b.fetched, b.name) = {}) =>
               b.error = <<"Unknown MCP tool: ">> \o b.name /\ b.sentAs = NoName
          /\ b.sentAs # NoName =>
               \E i \in 1..Len(b.fetched) : b.fetched[i].name = b.sentAs
  /\ Len(sent) = Cardinality({k \in 1..Len(bcalls) : bcalls[k].sentAs # NoName})
  /\ \A i \in 1..Len(sent) :
       sent[i].call \in 1..Len(bcalls) /\ bcalls[sent[i].call].sentAs = sent[i].name

\* C19 witness: one callTool call was made before connect and one, with a
\* name no descriptor matches, on the connected bridge; both raised and the
\* tool source has received nothing.
C19_BothRaised ==
  /\ Len(bcalls) = 2
  /\ bcalls[1].cl = 0
  /\ bcalls[1].error = <<"Not connected to MCP server">>
  /\ bcalls[2].cl # 0
  /\ bcalls[2].fetched # <<>>
  /\ bcalls[2].name = ToolX
  /\ bcalls[2].error = <<"Unknown MCP tool: ">> \o ToolX
  /\ sent = <<>>

\* C20: while a connection made by a successful connect is in place, the
\* held descriptors are the fetched ones and the interface text is the
\* generator's output for them, and no step that keeps the connection (a
\* callTool, getTools or getTypeDefinitions call, a change made by the caller
\* to an array getTools returned) alters either.
C20_FrozenWhileConnected ==
  /\ []((client # 0 /\ fetched # <<>>) =>
          /\ tools = fetched
          /\ typeDefinitions = generateTypeScriptDefinitions(tools))
  /\ [][(client # 0 /\ fetched # <<>> /\ client' # 0) =>
          /\ tools' = tools
          /\ typeDefinitions' = typeDefinitions]_vars

\* C20 witness: on a connected bridge the caller holds an array getTools
\* returned and has changed it, a callTool call has been made, and the
\* bridge holds what it fetched.
C20_CallerChangedItsCopy ==
  /\ client # 0
  /\ fetched # <<>>
  /\ Len(handed) = 1
  /\ handed[1].kind = "tools"
  /\ handed[1].items # tools
  /\ Len(handed[1].items) = Len(tools) + 1
  /\ bcalls # <<>>
  /\ tools = fetched

----------------------------------------------------------------------------
\* C21 (as claimed): for code that compiles, the usage check inside
\* executeCode passes exactly when every identifier the code calls on mcp is
\* one the generated interface declares for the connected tools.
C21_UsageCheckMatchesInterface ==
  \A i \in 1..Len(subs) :
    (GateReached(subs[i]) /\ validate(subs[i].code).success) =>
      (subs[i].outcome # "failed" <=> CalledTools(subs[i].code) \subseteq subs[i].known)

----------------------------------------------------------------------------
(* schema-to-types.js called directly *)

MaxPure == 2

S_string == [type |-> "string"]
S_number == [type |-> "number"]
S_enum == [type |-> "string", enum |-> <<"a", "b">>]
S_enumBA == [type |-> "string", enum |-> <<"b", "a">>]
S_described == [type |-> "number", description |-> "count"]
S_odd == [type |-> "date"]
S_untyped == [title |-> "x"]
S_array == [type |-> "array", items |-> S_enum]
S_arrayAny == [type |-> "array"]
S_allOfNone == [allOf |-> <<>>]
S_anyOf == [anyOf |-> <<S_string, S_number, NoSchema>>]
S_generic == [type |-> "object"]
S_closed == [type |-> "object", additionalProperties |-> [is |-> FALSE]]
S_object ==
  [type |-> "object",
   properties |-> <<[key |-> "q", schema |-> S_enum], [key |-> "n", schema |-> S_described]>>,
   required |-> <<"q">>]
S_objectNoRequired ==
  [type |-> "object",
   properties |-> <<[key |-> "q", schema |-> S_enumBA], [key |-> "n", schema |-> S_odd]>>]
S_objectAllRequired ==
  [type |-> "object",
   properties |-> <<[key |-> "n", schema |-> S_number], [key |-> "q", schema |-> S_string]>>,
   required |-> <<"q", "n">>,
   additionalProperties |-> [is |-> TRUE]]
S_nested ==
  [type |-> "object",
   properties |-> <<[key |-> "inner", schema |-> S_object], [key |-> "n", schema |-> S_allOfNone]>>,
   required |-> <<"n">>,
   additionalProperties |-> S_string]
S_nullProperty ==
  [type |-> "object",
   properties |-> <<[key |-> "q", schema |-> S_string], [key |-> "n", schema |-> NoSchema]>>]

Schemas ==
  {NoSchema, S_string, S_number, S_enum, S_enumBA, S_odd, S_untyped, S_array, S_arrayAny,
   S_allOfNone, S_anyOf, S_generic, S_closed, S_object, S_objectNoRequired,
   S_objectAllRequired, S_nested, S_nullProperty}

\* A call of an exported function changes nothing but the record kept of it.
PureCall(fn, in, out) ==
  /\ Len(pcalls) < MaxPure
  /\ pcalls' = Append(pcalls, [fn |-> fn, in |-> in, out |-> out])
  /\ UNCHANGED <<facade, validateTypes, connected, availableTools, client, tools, sent, subs,
                 connects, bVars>>
  /\ UNCHANGED <<isoVars, wVars>>

\* jsonSchemaToTypeScript(schema)
TranslateSchema(schema) == PureCall("translate", schema, jsonSchemaToTypeScript(schema, 0))

NextSchema == \E schema \in Schemas : TranslateSchema(schema)

SpecSchema == InitBridge /\ [][NextSchema]_vars

\* The node has none of the shapes the translation knows.
Unrecognized(schema) ==
  \/ schema = NoSchema
  \/ /\ ~Has(schema, "anyOf") /\ ~Has(schema, "oneOf") /\ ~Has(schema, "allOf")
     /\ \/ ~Has(schema, "type")
        \/ schema.type \notin {"string", "number", "integer", "boolean", "null", "array",
                                "object"}
  \/ Has(schema, "allOf") /\ schema.allOf = <<>>

\* C23 (as claimed): jsonSchemaToTypeScript returns a type text for every
\* schema node and never raises, and a missing or unrecognized node is
\* translated to unknown.
C23_TranslationNeverRaises ==
  \A k \in 1..Len(pcalls) :
    pcalls[k].fn = "translate" =>
      /\ ~pcalls[k].out.raised
      /\ pcalls[k].out.text # <<>>
      /\ Unrecognized(pcalls[k].in) => pcalls[k].out.text = <<"unknown">>

\* The piece occurs in the text at position j.
PieceAt(text, j, piece) ==
  /\ j + Len(piece) - 1 <= Len(text)
  /\ \A i \in 1..Len(piece) : text[j + i - 1] = piece[i]

\* "v1" | "v2" | ... in the order of the list
LiteralUnion(values) ==
  [i \in 1..(4 * Len(values) - 1) |->
     IF i % 4 = 0 THEN " | "
     ELSE IF i % 4 = 2 THEN values[(i + 2) \div 4]
     ELSE "\""]

\* C24: in the text of an object schema with properties, the key of a
\* property is followed by the optional marker exactly when the key is not in
\* the schema's required list, an absent list listing nothing; and the type
\* of a string property with an enum is the union of its quoted values in
\* the enum's order.
C24_RequiredAndEnum ==
  \A k \in 1..Len(pcalls) :
    LET schema == pcalls[k].in
        text == pcalls[k].out.text
    IN (pcalls[k].fn = "translate" /\ ~pcalls[k].out.raised /\ schema # NoSchema
          /\ Has(schema, "type") /\ schema.type = "object" /\ Has(schema, "properties")) =>
         \A i \in 1..Len(schema.properties) :
           LET key == schema.properties[i].key
               prop == schema.properties[i].schema
               listed == Has(schema, "required")
                           /\ key \in {schema.required[r] : r \in 1..Len(schema.required)}
               at == {j \in 1..Len(text) : text[j] = key /\ (j = 1 \/ text[j - 1] = "  ")}
           IN /\ at # {}
              /\ \A j \in at :
                   /\ listed => PieceAt(text, j + 1, <<": ">>)
                   /\ ~listed => PieceAt(text, j + 1, <<"?", ": ">>)
                   /\ (Has(prop, "type") /\ prop.type = "string" /\ Has(prop, "enum")) =>
                        PieceAt(text, j + (IF listed THEN 2 ELSE 3),
                                LiteralUnion(prop.enum) \o <<";">>)

\* C24 witness: an object schema with a required enum property and an
\* optional one was translated, and so was one without a required list.
C24_BothMarkers ==
  /\ Len(pcalls) = 2
  /\ pcalls[1].in = S_object
  /\ PieceAt(pcalls[1].out.text, 2, <<"  ", "q", ": ", "\"", "a", "\"", " | ", "\"", "b", "\"", ";">>)
  /\ \E j \in 1..Len(pcalls[1].out.text) : PieceAt(pcalls[1].out.text, j, <<"n", "?", ": ">>)
  /\ pcalls[2].in = S_objectNoRequired
  /\ PieceAt(pcalls[2].out.text, 2, <<"  ", "q", "?", ": ", "\"", "b", "\"", " | ", "\"", "a", "\"", ";">>)

----------------------------------------------------------------------------
(* sanitizeName called directly *)

MaxNameLen == 2

NameChars == {"a", "Z", "0", "_", "-", "!"}

SearchMusic == <<"s", "e", "a", "r", "c", "h", "-", "m", "u", "s", "i", "c", "!">>

ToolNames == UNION {[1..n -> NameChars] : n \in 0..MaxNameLen} \cup {SearchMusic}

\* sanitizeName(name)
Sanitize(name) == PureCall("sanitize", name, sanitizeName(name))

NextNames == \E name \in ToolNames : Sanitize(name)

SpecNames == InitBridge /\ [][NextNames]_vars

\* Letters, digits and the underscore
IdentifierChars ==
  {LowerCase[i] : i \in 1..Len(LowerCase)} \cup {UpperCase[i] : i \in 1..Len(UpperCase)}
    \cup {"0", "1", "2", "3", "4", "5", "6", "7", "8", "9", "_"}

\* C25: sanitizeName keeps the length, keeps every letter, digit and
\* underscore where it is, puts one underscore in the place of every other
\* character, and maps its own result to itself.
C25_SanitizeCharacterwise ==
  \A k \in 1..Len(pcalls) :
    LET name == pcalls[k].in
        out == pcalls[k].out
    IN pcalls[k].fn = "sanitize" =>
         /\ Len(out) = Len(name)
         /\ \A i \in 1..Len(name) :
              out[i] = IF name[i] \in IdentifierChars THEN name[i] ELSE "_"
         /\ \A i \in 1..Len(out) : out[i] \in IdentifierChars
         /\ sanitizeName(out) = out

\* C25 witness: search-music! was sanitized to search_music_, and a name of
\* two characters outside the identifier characters to two underscores.
C25_SearchMusic ==
  /\ Len(pcalls) = 2
  /\ pcalls[1].in = SearchMusic
  /\ pcalls[1].out = <<"s", "e", "a", "r", "c", "h", "_", "m", "u", "s", "i", "c", "_">>
  /\ pcalls[2].in = <<"-", "!">>
  /\ pcalls[2].out = <<"_", "_">>

----------------------------------------------------------------------------
(* generateTypeScriptDefinitions called directly, beside a bridge in use *)

DescriptorLists ==
  ToolSets \cup
    { <<>>,
      <<[name |-> NameT, description |-> "d", inputSchema |-> S_object]>>,
      <<[name |-> NameADashB, inputSchema |-> S_nested], [name |-> NameT]>>,
      <<[name |-> NameT, inputSchema |-> S_nullProperty]>> }

\* generateTypeScriptDefinitions(tools)
Generate(ts) ==
  PureCall("generate", ts,
           IF GeneratorRaises(ts) THEN TypeErrorRaised
           ELSE TypeText(generateTypeScriptDefinitions(ts)))

GenerateAny == \E ts \in DescriptorLists : Generate(ts)

NextGen ==
  \/ GenerateAny
  \/ BridgeConnectAny
  \/ BridgeDisconnect

SpecGen == InitBridge /\ [][NextGen]_vars

----------------------------------------------------------------------------
(* Validator.formatDiagnostics *)

\* A source text is the sequence of its lines, a line the sequence of its
\* pieces; a piece of blanks is Blank.
Marker == "// User code"
Blank == "  "

\* The combined unit of validate, split at its line breaks
fullSource(types, code) ==
  <<<<>>, <<"// Type definitions">>>> \o types \o <<<<>>, <<Marker>>>> \o code \o <<<<>>>>

\* l.includes('// User code')
IncludesMarker(line) == \E i \in 1..Len(line) : line[i] = Marker

\* lines.findIndex(l => l.includes('// User code')), 0-based, -1 when none
findIndexOfMarker(lines) ==
  LET hits == {i \in 1..Len(lines) : IncludesMarker(lines[i])}
  IN IF hits = {} THEN 0 - 1 ELSE (CHOOSE i \in hits : \A j \in hits : i <= j) - 1

\* String.prototype.trim
RECURSIVE trim(_)
trim(line) ==
  IF line = <<>> THEN <<>>
  ELSE IF line[1] = Blank THEN trim(Tail(line))
  ELSE IF line[Len(line)] = Blank THEN trim(SubSeq(line, 1, Len(line) - 1))
  ELSE line

\* formatDiagnostics for one diagnostic that has a file and a start: line is
\* the 0-based line getLineAndCharacterOfPosition gives in the combined unit.
formatDiagnostic(line, source) ==
  LET codeLine == IF line + 1 <= Len(source) THEN source[line + 1] ELSE <<>>
      userCodeStartLine == findIndexOfMarker(source) + 1
  IN [line |-> line - userCodeStartLine, code |-> trim(codeLine)]

TypeTexts ==
  { << <<"declare const mcp: {">>, <<Blank, "t: () => Promise<TOutput>;">>, <<"};">> >>,
    << <<"declare const mcp: {">>, <<Blank, "/** ", Marker, " */">>,
       <<Blank, "t: () => Promise<TOutput>;">>, <<"};">> >> }

CodeLines == { <<"const x = ;">>, <<Blank, "mcp.t(", Blank>>, <<Marker>> }

CodeTexts == UNION {[1..n -> CodeLines] : n \in 1..2}

\* validate(code, types) finding a diagnostic at 0-based line u of the code
Diagnose(types, code, u) ==
  PureCall("diagnose", [types |-> types, code |-> code, u |-> u],
           formatDiagnostic(Len(types) + 4 + u, fullSource(types, code)))

DiagnoseAny ==
  \E types \in TypeTexts, code \in CodeTexts :
    \E u \in 0..(Len(code) - 1) : Diagnose(types, code, u)

NextDiag == DiagnoseAny

SpecDiag == InitBridge /\ [][NextDiag]_vars

\* C26 (as claimed): for a diagnostic inside the submitted code, the reported
\* line is the 0-based position of the line within the submitted code, for
\* every interface text and every code, and the reported code is that line
\* trimmed.
C26_LineWithinUserCode ==
  \A k \in 1..Len(pcalls) :
    pcalls[k].fn = "diagnose" =>
      /\ pcalls[k].out.line = pcalls[k].in.u
      /\ pcalls[k].out.code = trim(pcalls[k].in.code[pcalls[k].in.u + 1])

----------------------------------------------------------------------------
(* ErrorMapper.parseStackTrace *)

\* A line of a stack: the message line, which the pattern does not match, or
\* a frame "at ...:line:column".
MessageLine == [match |-> FALSE, line |-> 0, column |-> 0]
Frame(line, column) == [match |-> TRUE, line |-> line, column |-> column]

NoLocation == [found |-> FALSE, line |-> 0, column |-> 0, code |-> <<>>]

\* parseStackTrace(stack, code): the first matching line whose line number
\* lies within the lines of code, code being one statement per line
parseStackTrace(stack, code) ==
  LET hits == {i \in 1..Len(stack) :
                 stack[i].match /\ stack[i].line > 0 /\ stack[i].line <= Len(code)}
  IN IF hits = {} THEN NoLocation
     ELSE LET first == CHOOSE i \in hits : \A j \in hits : i <= j
          IN [found |-> TRUE, line |-> stack[first].line, column |-> stack[first].column,
              code |-> <<code[stack[first].line]>>]

\* Lines the wrapped engine puts before the first line of the code: the
\* line break that opens its template and "(async () => {"
WrapperLines(engine) == IF engine = "wrapped" THEN 2 ELSE 0

\* The line of execute that awaits context.eval, a frame of the host
EvalLine(engine) == IF engine = "wrapped" THEN 101 ELSE 79

\* The line the statement at line k of code has in the code handed to the
\* sandbox: the compiled code holds only the emitted statements.
LineInProcessed(code, k, compiled) ==
  IF compiled THEN Cardinality({i \in 1..k : IsEmitted(code[i])}) ELSE k

Boom == Throw(<<"boom">>)

RaisingCodes ==
  { <<Boom>>, <<Log("log", <<Str("a")>>), Boom>>, <<TypeDecl, Boom>>,
    <<TypeDecl, Log("log", <<Str("a")>>), Boom>>, <<Boom, Log("log", <<Str("a")>>), TypeDecl>>,
    <<Log("log", <<Str("a")>>), Log("log", <<Str("b")>>), Boom>> }

\* mapError for an error the code raised at its line k, the code having run
\* on the engine as submitted or in its compiled form
MapRaise(code, k, engine, compiled) ==
  PureCall("map", [code |-> code, k |-> k, engine |-> engine, compiled |-> compiled],
           parseStackTrace(<<MessageLine,
                             Frame(LineInProcessed(code, k, compiled) + WrapperLines(engine), 7),
                             Frame(EvalLine(engine), 13)>>,
                           code))

MapRaiseAny ==
  \E code \in RaisingCodes, engine \in {"fixed", "wrapped"}, compiled \in BOOLEAN :
    \E k \in {i \in 1..Len(code) : code[i] = Boom} : MapRaise(code, k, engine, compiled)

NextStack == MapRaiseAny

SpecStack == InitBridge /\ [][NextStack]_vars

\* C27 (as claimed): for an error raised at line k of the submitted code the
\* mapper reports line k and the text of line k of the submitted code, also
\* when the engine put wrapper lines before the code or ran the compiled
\* form of it.
C27_ReportsRaisingLine ==
  \A c \in 1..Len(pcalls) :
    pcalls[c].fn = "map" =>
      /\ pcalls[c].out.found
      /\ pcalls[c].out.line = pcalls[c].in.k
      /\ pcalls[c].out.code = <<pcalls[c].in.code[pcalls[c].in.k]>>

----------------------------------------------------------------------------
\* C28 (as claimed): on a connected bridge a call through the sanitized
\* identifier of a fetched tool is sent under that tool's original name,
\* whatever other tools were fetched with it.
C28_IdentifierReachesItsTool ==
  \A k \in 1..Len(bcalls) :
    \A i \in 1..Len(bcalls[k].fetched) :
      (bcalls[k].cl # 0 /\ bcalls[k].name = sanitizeName(bcalls[k].fetched[i].name)) =>
        bcalls[k].sentAs = bcalls[k].fetched[i].name

----------------------------------------------------------------------------
(* CodeSandbox.execute under fair scheduling *)

\* What goes on without anyone's doing once execute has been called: the
\* worker runs its code, the event loop of the host delivers the worker's
\* messages and events to the handlers of execute, and the timer fires. A
\* handler call may stay pending for ever.
WorkerProgress ==
  \/ WCrash
  \/ WStepLog
  \/ WStepCall
  \/ WDeliver
  \/ WStepAwait
  \/ WStepThrow
  \/ WStepEnd
  \/ WStepExit
  \/ HandleMcpCall
  \/ HandleComplete
  \/ HandleError
  \/ HandleExit
  \/ HandleTimeout

SpecWorkerFair == InitWorker /\ [][NextWorker]_vars /\ WF_vars(WorkerProgress)

\* C29 (as claimed): every call of CodeSandbox.execute eventually returns a
\* result, whatever the worker does.
C29_ExecuteSettles == \A n \in 1..MaxRuns : (runs = n) ~> (runs = n /\ wresult # <<>>)

----------------------------------------------------------------------------
(* IsolatedSandbox.execute called again before an earlier call has returned *)

O_one == <<Log("log", <<Str("one")>>)>>
O_two == <<Log("log", <<Str("a")>>), Log("warn", <<Str("b")>>)>>
O_three == <<Log("log", <<Str("x")>>), Log("log", <<Str("y")>>), Log("error", <<Str("z")>>)>>

OverlapPrograms == {O_one, O_two, O_three}

\* execute(code) on a sandbox that is initialized and whose earlier execute
\* call is still waiting for context.eval: a new this.logs array, and
\* context.eval, which queues the code behind what the isolate is running.
ExecuteWhileRunning(prog) ==
  /\ hpc = "eval"
  /\ isolate # 0
  /\ context # 0
  /\ Len(execs) < MaxExec
  /\ arrays' = Append(arrays, <<>>)
  /\ logs' = Len(arrays) + 1
  /\ tasks' = tasks \cup {Task(Len(execs) + 1, prog, 1, "main", 0)}
  /\ execs' = Append(execs, [prog |-> prog, h |-> NoHandler, iso |-> isolate,
                             prior |-> disposeRun])
  /\ made' = Append(made, <<>>)
  /\ disposeRun' = 0
  /\ UNCHANGED <<variant, isolate, context, alive, created, proxy, hpc, running, cur, calls,
                 results, raised>>
  /\ UNCHANGED <<facVars, wVars>>

ExecuteFirst ==
  /\ \E prog \in OverlapPrograms : ExecuteStart(prog, NoHandler)
  /\ UNCHANGED <<facVars, wVars>>

ExecuteAgain == \E prog \in OverlapPrograms : ExecuteWhileRunning(prog)

\* Two execute calls on a sandbox that is not initialized, the second made
\* while the first awaits inside initialize: each finds a reference missing
\* and runs initialize, each initialize makes an isolate and assigns
\* this.isolate at once and this.context when its createContext resolves.
\* this.isolate ends on the second isolate, this.context on the context whose
\* createContext resolved last. Both calls then reach context.eval.
ExecuteBothUninitialized(prog1, prog2) ==
  /\ hpc = "idle"
  /\ isolate = 0 \/ context = 0
  /\ Len(execs) + 2 <= MaxExec
  /\ LET e == Len(execs) + 1
     IN /\ created' = created + 2
        /\ alive' = alive \cup {created + 1, created + 2}
        /\ isolate' = created + 2
        /\ context' \in {created + 1, created + 2}
        /\ arrays' = arrays \o <<(<<>>), (<<>>)>>
        /\ logs' = Len(arrays) + 2
        /\ proxy' = NoHandler
        /\ tasks' = {Task(e, prog1, 1, "main", 0), Task(e + 1, prog2, 1, "main", 0)}
        /\ execs' = execs \o <<[prog |-> prog1, h |-> NoHandler, iso |-> created + 1,
                                 prior |-> disposeRun],
                                [prog |-> prog2, h |-> NoHandler, iso |-> created + 2,
                                 prior |-> 0]>>
        /\ made' = made \o <<(<<>>), (<<>>)>>
        /\ hpc' = "eval"
        /\ disposeRun' = 0
  /\ UNCHANGED <<variant, running, cur, calls, results, raised>>
  /\ UNCHANGED <<facVars, wVars>>

ExecuteTwice == \E prog1, prog2 \in OverlapPrograms : ExecuteBothUninitialized(prog1, prog2)

MemoryKillMessage == <<DisposedSig, " during execution due to memory limit">>

\* What context.eval rejects with when the isolate is disposed by the host
\* while the code runs.
DisposedWhileRunningMessages == {<<DisposedSig, " during execution">>, <<"Isolate is disposed">>}

\* dispose() called while one execute call awaits context.eval and its code
\* runs: the context is released, the isolate disposed and both references
\* nulled; eval rejects and the catch block of execute builds the result.
DisposeWhileRunning ==
  /\ hpc = "eval"
  /\ running = "main"
  /\ tasks = {}
  /\ isolate # 0
  /\ context = isolate
  /\ disposeRun < MaxDisposeRun
  /\ disposeRun' = disposeRun + 1
  /\ alive' = alive \ {isolate}
  /\ tasks' = {}
  /\ running' = "none"
  /\ cur' = NoTask
  /\ isolate' = 0
  /\ context' = 0
  /\ hpc' = "idle"
  /\ \E msg \in DisposedWhileRunningMessages :
       results' = Append(results, [MkResult(cur.exec, FALSE, Classify(msg),
                                            FailureOutput(variant, logs), TRUE)
                                     EXCEPT !.raw = msg])
  /\ UNCHANGED <<variant, created, logs, arrays, proxy, calls, made, execs, raised>>
  /\ UNCHANGED <<facVars, wVars>>

NextOverlap ==
  \/ ExecuteFirst
  \/ ExecuteAgain
  \/ EvalBegin
  \/ StepLog
  \/ StepEnd

\* IsolatedSandbox with callers that do not wait for one another: execute
\* calls racing through initialize, and dispose during an execution.
NextConcurrent ==
  \/ ExecuteFirst
  \/ ExecuteTwice
  \/ DisposeWhileRunning
  \/ EvalBegin
  \/ StepLog
  \/ StepEnd

SpecConcurrent == InitIso /\ [][NextConcurrent]_vars

SpecOverlap == InitIso /\ [][NextOverlap]_vars

\* C30 (as claimed): also when execute calls overlap, the output of each
\* result holds exactly the lines its own code logged, when the result is
\* returned and afterwards.
C30_OwnLinesWhenOverlapping ==
  \A k \in 1..Len(results) :
    /\ results[k].output # Undefined
    /\ results[k].snap = ExpectedLines(results[k].made)
    /\ (running = "none" /\ tasks = {}) =>
         LinesOf(results[k].output) = ExpectedLines(made[results[k].exec])

----------------------------------------------------------------------------
\* C33 (as claimed): a call the code makes on mcp is served by the handler
\* its own execute call was given, and by no handler when it was given none.
C33_OnlyOwnHandlerServes ==
  \A c \in 1..Len(calls) :
    /\ execs[calls[c].exec].h # NoHandler
    /\ calls[c].h = execs[calls[c].exec].h

----------------------------------------------------------------------------
\* return this.client !== null
isConnected == client # 0

\* C34 (as claimed): a bridge on which no connect has completed since it was
\* constructed or last disconnected (it holds no interface text) is not
\* connected, so that a connect which failed part-way leaves isConnected
\* false, and every callTool made on such a bridge raises the not-connected
\* error.
C34_FailedConnectLeavesNotConnected ==
  /\ typeDefinitions = <<>> => ~isConnected
  /\ \A k \in 1..Len(bcalls) :
       bcalls[k].fetched = <<>> => bcalls[k].error = <<"Not connected to MCP server">>

----------------------------------------------------------------------------
\* C31 (as claimed): while no operation of the sandbox is in progress the
\* isolate and context references are both present or both absent, and
\* however execute calls arrive no isolate lives besides the one the sandbox
\* references: at most one isolate is live, and a live one is referenced.
C31_ReferencesPairedOneIsolate ==
  /\ (hpc = "idle" /\ running = "none") => (isolate = 0 <=> context = 0)
  /\ Cardinality(alive) <= 1
  /\ alive \subseteq {isolate}

\* C32 (as claimed): a result reports the memory-limit error only when
\* context.eval was rejected because the isolate was terminated for exceeding
\* the memory ceiling.
C32_MemoryErrorOnlyForMemoryKill ==
  \A k \in 1..Len(results) :
    results[k].error.kind = "memory" => results[k].raw = MemoryKillMessage

\* C35 (as claimed): whatever connect, disconnect and executeCode calls were
\* made, while the bridge is disconnected the tool set and the interface text
\* are empty and the facade's connected flag is false, so that executeCode
\* raises the not-connected error.
C35_DisconnectedIsEmptyAndRefuses ==
  client = 0 => (tools = <<>> /\ typeDefinitions = <<>> /\ ~connected)

====
